---- MODULE Spec2Model ----
(***************************************************************************)
(* BackgroundMaterial (src/unnamed/part_000): the readiness check          *)
(* isReadyForSubMesh, the property setters that mark partitions dirty, and *)
(* the collaborators the check calls (material defines, engine effect      *)
(* cache, textures, image-processing configuration).                       *)
(***************************************************************************)
EXTENDS Integers, Sequences, FiniteSets, TLC

VARIABLES
    material,         \* the BackgroundMaterial instance (its properties)
    materialFlags,    \* MaterialFlags.DiffuseTextureEnabled / ReflectionTextureEnabled
    subMeshes,        \* sub-mesh id -> materialDefines, effect, draw wrapper flags
    engine,           \* the engine: compiled effects (in creation order), caps
    scene,            \* the scene settings read by the check
    imageProcessing,  \* the image-processing configuration in use
    textures,         \* the texture objects of the scene, by name
    lastCall,         \* what the most recent isReadyForSubMesh call did
    lastSetter,       \* the property assigned since the last readiness check
    frame,            \* frames rendered by the frame-by-frame scenario
    lastBind,         \* what the most recent bindForSubMesh call did
    spriteMap,        \* the SpriteMap instance, once constructed
    actionManager     \* AbstractActionManager.Triggers and the last query

vars == <<material, materialFlags, subMeshes, engine, scene, imageProcessing,
          textures, lastCall, lastSetter, frame, lastBind, spriteMap, actionManager>>

-----------------------------------------------------------------------------
(* Bounds of the model. *)

\* sub-meshes sharing the material in the cache specification
MaxSubMeshes == 2
\* largest value given to primaryColorShadowLevel / primaryColorHighlightLevel
MaxLevel == 1
\* most frames on which a texture reports not-ready in the scenario
MaxNotReadyFrames == 3
\* frames rendered by the scenario after the texture became ready
MaxExtraFrames == 2
\* frames of the scenario that toggles reflectionFresnel
MaxToggles == 3
\* most cameras created in a scene
MaxCameras == 3
\* most lights created in a scene
MaxLights == 5
\* how far, in tenths, the values given to fovMultiplier leave [0, 2]
MaxFovExcess == 2
\* most sprites of an atlas
MaxSprites == 3
\* widest stage, in tiles
MaxStage == 2

-----------------------------------------------------------------------------
(* Textures. coordinatesMode is one of the Texture.*_MODE names. *)

CoordinatesModes ==
    {"EXPLICIT_MODE", "SPHERICAL_MODE", "PLANAR_MODE", "CUBIC_MODE",
     "PROJECTION_MODE", "SKYBOX_MODE", "INVCUBIC_MODE", "EQUIRECTANGULAR_MODE",
     "FIXED_EQUIRECTANGULAR_MODE", "FIXED_EQUIRECTANGULAR_MIRRORED_MODE"}

\* what a null texture property resolves to; isNull tells it from a texture.
\* notReadyFrames is the number of frames on which a texture of the frame
\* scenario reports not-ready.
NullTexture ==
    [isNull |-> TRUE, ready |-> TRUE, hasAlpha |-> FALSE, gammaSpace |-> FALSE,
     coordinatesIndex |-> 0, directUV |-> FALSE, isRGBD |-> FALSE,
     lodLevelInAlpha |-> FALSE, isCube |-> FALSE, invertZ |-> FALSE,
     coordinatesMode |-> "EXPLICIT_MODE", notReadyFrames |-> 0]

\* the material with its two texture properties resolved to the texture
\* objects they name ("null": no texture)
Resolved(m, tx) ==
    [m EXCEPT !.diffuseTexture = IF @ = "null" THEN NullTexture ELSE tx[@],
              !.reflectionTexture = IF @ = "null" THEN NullTexture ELSE tx[@]]

\* texture.isReadyOrNotBlocking()
isReadyOrNotBlocking(t) == t.ready

-----------------------------------------------------------------------------
(* BackgroundMaterialDefines: the define values and the dirty bookkeeping  *)
(* of MaterialDefines.                                                     *)

BoolDefines ==
    {"DIFFUSE", "GAMMADIFFUSE", "DIFFUSEHASALPHA", "OPACITYFRESNEL",
     "REFLECTIONBLUR", "REFLECTIONFRESNEL", "REFLECTIONFALLOFF",
     "TEXTURELODSUPPORT", "PREMULTIPLYALPHA", "USERGBCOLOR",
     "USEHIGHLIGHTANDSHADOWCOLORS", "BACKMAT_SHADOWONLY", "NOISE",
     "REFLECTIONBGR", "PROJECTED_GROUND", "IMAGEPROCESSING", "MULTIVIEW",
     "REFLECTION", "REFLECTIONMAP_3D", "REFLECTIONMAP_SPHERICAL",
     "REFLECTIONMAP_PLANAR", "REFLECTIONMAP_CUBIC", "REFLECTIONMAP_PROJECTION",
     "REFLECTIONMAP_SKYBOX", "REFLECTIONMAP_EXPLICIT",
     "REFLECTIONMAP_EQUIRECTANGULAR", "REFLECTIONMAP_EQUIRECTANGULAR_FIXED",
     "REFLECTIONMAP_MIRROREDEQUIRECTANGULAR_FIXED", "INVERTCUBICMAP",
     "REFLECTIONMAP_OPPOSITEZ", "LODINREFLECTIONALPHA", "GAMMAREFLECTION",
     "RGBDREFLECTION", "EQUIRECTANGULAR_RELFECTION_FOV", "MAINUV1", "MAINUV2",
     "UV1", "UV2", "POINTSIZE", "FOG", "NORMAL", "INSTANCES"}

NumericDefines == {"DIFFUSEDIRECTUV", "TONEMAPPING"}

DefineNames == BoolDefines \cup NumericDefines

\* the dirty bookkeeping fields of MaterialDefines
BookkeepingNames ==
    {"isDirty", "areTexturesDirty", "areLightsDirty", "areMiscDirty",
     "areImageProcessingDirty", "areAttributesDirty", "needUVs", "needNormals",
     "uvs", "normals", "renderIdIsCurrent"}

\* new BackgroundMaterialDefines(): every define at its declared default,
\* every partition dirty, never validated in any render id
BackgroundMaterialDefines ==
    [n \in DefineNames \cup BookkeepingNames |->
        IF n \in NumericDefines THEN 0
        ELSE IF n \in {"isDirty", "areTexturesDirty", "areLightsDirty",
                       "areMiscDirty", "areImageProcessingDirty",
                       "areAttributesDirty"} THEN TRUE
        ELSE FALSE]

\* the define values alone
Values(d) == [n \in DefineNames |-> d[n]]

\* MaterialDefines.toString(): one "#define NAME" per true boolean and one
\* "#define NAME value" per numeric define
toString(d) ==
    {<<n, 1>> : n \in {b \in BoolDefines : d[b]}}
        \cup {<<n, d[n]>> : n \in NumericDefines}

\* d with the fields of the record upd overwritten
Assign(d, upd) == upd @@ d

markAsUnprocessed(d) == [d EXCEPT !.isDirty = TRUE]

markAsProcessed(d) ==
    [d EXCEPT !.isDirty = FALSE, !.areAttributesDirty = FALSE,
              !.areTexturesDirty = FALSE, !.areLightsDirty = FALSE,
              !.areMiscDirty = FALSE, !.areImageProcessingDirty = FALSE]

\* markAllAsDirty(): every partition
markAllAsDirty(d) ==
    [d EXCEPT !.isDirty = TRUE, !.areAttributesDirty = TRUE,
              !.areTexturesDirty = TRUE, !.areLightsDirty = TRUE,
              !.areMiscDirty = TRUE, !.areImageProcessingDirty = TRUE]

markAsTexturesDirty(d) == [d EXCEPT !.areTexturesDirty = TRUE, !.isDirty = TRUE]
markAsLightDirty(d) == [d EXCEPT !.areLightsDirty = TRUE, !.isDirty = TRUE]
markAsMiscDirty(d) == [d EXCEPT !.areMiscDirty = TRUE, !.isDirty = TRUE]
markAsImageProcessingDirty(d) ==
    [d EXCEPT !.areImageProcessingDirty = TRUE, !.isDirty = TRUE]

-----------------------------------------------------------------------------
(* The collaborators of the readiness check that write defines             *)
(* (materialHelper.functions, ImageProcessingConfiguration).               *)

\* PrepareDefinesForMultiview: MULTIVIEW follows the camera's render target;
\* a change marks the define set unprocessed
PrepareDefinesForMultiview(sc, d) ==
    IF d.MULTIVIEW # sc.multiview
    THEN markAsUnprocessed([d EXCEPT !.MULTIVIEW = sc.multiview])
    ELSE d

\* PrepareDefinesForMergedUV(texture, defines, "DIFFUSE")
PrepareDefinesForMergedUV(texture, d) ==
    IF texture.directUV
    THEN Assign(d, [needUVs |-> TRUE, DIFFUSE |-> TRUE,
                    DIFFUSEDIRECTUV |-> texture.coordinatesIndex + 1,
                    MAINUV1 |-> d.MAINUV1 \/ texture.coordinatesIndex = 0,
                    MAINUV2 |-> d.MAINUV2 \/ texture.coordinatesIndex = 1])
    ELSE Assign(d, [needUVs |-> TRUE, DIFFUSE |-> TRUE, DIFFUSEDIRECTUV |-> 0])

\* ImageProcessingConfiguration.prepareDefines(defines)
prepareDefines(ip, d) ==
    Assign(d, [TONEMAPPING |-> IF ip.toneMappingEnabled THEN 1 ELSE 0,
               IMAGEPROCESSING |-> ip.toneMappingEnabled])

\* PrepareDefinesForMisc: written only when the misc partition is dirty
PrepareDefinesForMisc(m, sc, d) ==
    IF d.areMiscDirty
    THEN Assign(d, [POINTSIZE |-> m.pointsCloud,
                    FOG |-> m.fogEnabled /\ sc.fogEnabled])
    ELSE d

\* PrepareDefinesForFrameBoundValues: INSTANCES follows useInstances on every
\* call; a change marks the define set unprocessed
PrepareDefinesForFrameBoundValues(d, useInstances) ==
    IF d.INSTANCES # useInstances
    THEN markAsUnprocessed([d EXCEPT !.INSTANCES = useInstances])
    ELSE d

\* PrepareDefinesForAttributes for a mesh with positions, normals and one UV
\* set
PrepareDefinesForAttributes(d) ==
    IF ~d.areAttributesDirty /\ d.needNormals = d.normals /\ d.needUVs = d.uvs
    THEN d
    ELSE Assign(d, [normals |-> d.needNormals, uvs |-> d.needUVs,
                    NORMAL |-> d.needNormals, UV1 |-> d.needUVs,
                    UV2 |-> FALSE])

-----------------------------------------------------------------------------
(* The engine's effect cache. A compiled effect is an object of its own:   *)
(* its name and the number of the compile that made it (the first compile  *)
(* of a name makes number 1).                                              *)

\* "no effect" (subMesh.effect is null)
NoEffect == [name |-> [shader |-> "none", defines |-> {}], compile |-> 0]

EffectsNamed(eng, name) == {e \in eng.effects : e.name = name}

\* engine.createEffect("background", options): the compiled effect of that
\* name if there is one, else a new effect, ready at once unless the engine
\* compiles in parallel
createEffect(eng, name) ==
    IF EffectsNamed(eng, name) # {}
    THEN [engine |-> eng,
          effect |-> CHOOSE e \in EffectsNamed(eng, name) : TRUE,
          compiled |-> FALSE]
    ELSE LET e == [name |-> name, compile |-> 1]
         IN  [engine |-> [eng EXCEPT
                            !.effects = @ \cup {e},
                            !.ready = IF eng.caps.parallelShaderCompile
                                      THEN @ ELSE @ \cup {e}],
              effect |-> e,
              compiled |-> TRUE]

\* effect.isReady()
isReady(eng, e) == e \in eng.ready

-----------------------------------------------------------------------------
(* BackgroundMaterial.isReadyForSubMesh, block by block.                   *)

\* FrozenFastPath comparing the instancing mode with "no instances" instead
\* of the recorded mode
FrozenFastPath_NoInstancesOnly(m, sm, useInstances) ==
    /\ sm.effect # NoEffect
    /\ m.isFrozen
    /\ sm.wasPreviouslyReady
    /\ ~useInstances

\* the fast path of a frozen material
FrozenFastPath(m, sm, useInstances) ==
    /\ sm.effect # NoEffect
    /\ m.isFrozen
    /\ sm.wasPreviouslyReady
    /\ sm.wasPreviouslyUsingInstances = {useInstances}

\* PushMaterial._isReadyForSubMesh: the sub-mesh has an effect and its defines
\* were validated in the current render id
SameRenderId(sm, d) == sm.effect # NoEffect /\ d.renderIdIsCurrent

\* the defines of a diffuse texture in use
DiffuseDefines(m, d) ==
    Assign(PrepareDefinesForMergedUV(m.diffuseTexture, d),
           [DIFFUSEHASALPHA |-> m.diffuseTexture.hasAlpha,
            GAMMADIFFUSE |-> m.diffuseTexture.gammaSpace,
            OPACITYFRESNEL |-> m.opacityFresnel])

\* no diffuse texture in use
DiffuseDefaults(d) ==
    Assign(d, [DIFFUSE |-> FALSE, DIFFUSEDIRECTUV |-> 0,
               DIFFUSEHASALPHA |-> FALSE, GAMMADIFFUSE |-> FALSE,
               OPACITYFRESNEL |-> FALSE])

\* the define the switch on reflectionTexture.coordinatesMode sets
CoordinatesModeDefine(mode) ==
    CASE mode = "EXPLICIT_MODE" -> "REFLECTIONMAP_EXPLICIT"
      [] mode = "PLANAR_MODE" -> "REFLECTIONMAP_PLANAR"
      [] mode = "PROJECTION_MODE" -> "REFLECTIONMAP_PROJECTION"
      [] mode = "SKYBOX_MODE" -> "REFLECTIONMAP_SKYBOX"
      [] mode = "SPHERICAL_MODE" -> "REFLECTIONMAP_SPHERICAL"
      [] mode = "EQUIRECTANGULAR_MODE" -> "REFLECTIONMAP_EQUIRECTANGULAR"
      [] mode = "FIXED_EQUIRECTANGULAR_MODE" ->
            "REFLECTIONMAP_EQUIRECTANGULAR_FIXED"
      [] mode = "FIXED_EQUIRECTANGULAR_MIRRORED_MODE" ->
            "REFLECTIONMAP_MIRROREDEQUIRECTANGULAR_FIXED"
      [] OTHER -> "REFLECTIONMAP_CUBIC"

\* the defines of a reflection texture in use
ReflectionDefines(m, sc, d) ==
    LET t == m.reflectionTexture
        d1 == Assign(d,
                [REFLECTION |-> TRUE,
                 GAMMAREFLECTION |-> t.gammaSpace,
                 RGBDREFLECTION |-> t.isRGBD,
                 REFLECTIONBLUR |-> m.reflectionBlur > 0,
                 LODINREFLECTIONALPHA |-> t.lodLevelInAlpha,
                 EQUIRECTANGULAR_RELFECTION_FOV |-> m.useEquirectangularFOV,
                 REFLECTIONBGR |-> m.switchToBGR,
                 INVERTCUBICMAP |->
                    d.INVERTCUBICMAP \/ t.coordinatesMode = "INVCUBIC_MODE",
                 REFLECTIONMAP_3D |-> t.isCube,
                 REFLECTIONMAP_OPPOSITEZ |->
                    IF t.isCube /\ sc.useRightHandedSystem
                    THEN ~t.invertZ ELSE t.invertZ])
        d2 == [d1 EXCEPT ![CoordinatesModeDefine(t.coordinatesMode)] = TRUE]
    IN  IF m.reflectionFresnel
        THEN Assign(d2, [REFLECTIONFRESNEL |-> TRUE,
                         REFLECTIONFALLOFF |-> m.reflectionFalloffDistance > 0])
        ELSE Assign(d2, [REFLECTIONFRESNEL |-> FALSE,
                         REFLECTIONFALLOFF |-> FALSE])

\* an else branch that would reset REFLECTION alone
ReflectionDefaults_ReflectionOnly(d) == Assign(d, [REFLECTION |-> FALSE])

\* no reflection texture in use
ReflectionDefaults(d) ==
    Assign(d, [REFLECTION |-> FALSE, REFLECTIONFRESNEL |-> FALSE,
               REFLECTIONFALLOFF |-> FALSE, REFLECTIONBLUR |-> FALSE,
               REFLECTIONMAP_3D |-> FALSE, REFLECTIONMAP_SPHERICAL |-> FALSE,
               REFLECTIONMAP_PLANAR |-> FALSE, REFLECTIONMAP_CUBIC |-> FALSE,
               REFLECTIONMAP_PROJECTION |-> FALSE,
               REFLECTIONMAP_SKYBOX |-> FALSE, REFLECTIONMAP_EXPLICIT |-> FALSE,
               REFLECTIONMAP_EQUIRECTANGULAR |-> FALSE,
               REFLECTIONMAP_EQUIRECTANGULAR_FIXED |-> FALSE,
               REFLECTIONMAP_MIRROREDEQUIRECTANGULAR_FIXED |-> FALSE,
               INVERTCUBICMAP |-> FALSE, REFLECTIONMAP_OPPOSITEZ |-> FALSE,
               LODINREFLECTIONALPHA |-> FALSE, GAMMAREFLECTION |-> FALSE,
               RGBDREFLECTION |-> FALSE])

\* the three defines written at the end of the textures block
TexturesTail(m, d) ==
    Assign(d, [PREMULTIPLYALPHA |->
                  m.alphaMode \in {"ALPHA_PREMULTIPLIED",
                                   "ALPHA_PREMULTIPLIED_PORTERDUFF"},
               USERGBCOLOR |-> m.useRGBColor,
               NOISE |-> m.enableNoise])

UseDiffuse(m, mf) == ~m.diffuseTexture.isNull /\ mf.DiffuseTextureEnabled
UseReflection(m, mf) == ~m.reflectionTexture.isNull /\ mf.ReflectionTextureEnabled

\* the textures block: the defines as the block leaves them, and the texture
\* whose not-ready report made the check return false ("none": no abort)
TexturesPartition(m, mf, sc, eng, d) ==
    LET d1 == [d EXCEPT !.needUVs = FALSE]
        d2 == IF eng.caps.textureLOD
              THEN [d1 EXCEPT !.TEXTURELODSUPPORT = TRUE] ELSE d1
        d3 == IF UseDiffuse(m, mf)
              THEN DiffuseDefines(m, d2) ELSE DiffuseDefaults(d2)
        d4 == IF UseReflection(m, mf)
              THEN ReflectionDefines(m, sc, d3) ELSE ReflectionDefaults(d3)
    IN  IF ~d.areTexturesDirty THEN [defines |-> d, abort |-> "none"]
        ELSE IF ~sc.texturesEnabled
             THEN [defines |-> TexturesTail(m, d1), abort |-> "none"]
        ELSE IF UseDiffuse(m, mf) /\ ~isReadyOrNotBlocking(m.diffuseTexture)
             THEN [defines |-> d2, abort |-> "diffuseTexture"]
        ELSE IF UseReflection(m, mf)
                /\ ~isReadyOrNotBlocking(m.reflectionTexture)
             THEN [defines |-> d3, abort |-> "reflectionTexture"]
        ELSE [defines |-> TexturesTail(m, d4), abort |-> "none"]

LightsPartition_WritesPremultiplyAlpha(m, d) ==
    IF d.areLightsDirty
    THEN Assign(d, [USEHIGHLIGHTANDSHADOWCOLORS |->
                       ~m.useRGBColor
                       /\ (m.primaryColorShadowLevel # 0
                           \/ m.primaryColorHighlightLevel # 0),
                    PREMULTIPLYALPHA |-> m.shadowOnly])
    ELSE d

LightsPartition_IgnoresHighlightLevel(m, d) ==
    IF d.areLightsDirty
    THEN Assign(d, [USEHIGHLIGHTANDSHADOWCOLORS |->
                       ~m.useRGBColor /\ m.primaryColorShadowLevel # 0,
                    BACKMAT_SHADOWONLY |-> m.shadowOnly])
    ELSE d

\* the lights block run whether or not the lights partition is dirty
LightsPartition_Unguarded(m, d) ==
    Assign(d, [USEHIGHLIGHTANDSHADOWCOLORS |->
                  ~m.useRGBColor
                  /\ (m.primaryColorShadowLevel # 0
                      \/ m.primaryColorHighlightLevel # 0),
               BACKMAT_SHADOWONLY |-> m.shadowOnly])

\* the lights block
LightsPartition(m, d) ==
    IF d.areLightsDirty
    THEN Assign(d, [USEHIGHLIGHTANDSHADOWCOLORS |->
                       ~m.useRGBColor
                       /\ (m.primaryColorShadowLevel # 0
                           \/ m.primaryColorHighlightLevel # 0),
                    BACKMAT_SHADOWONLY |-> m.shadowOnly])
    ELSE d

ImageProcessingPartition_LosesDirtyFlags(ip, d) ==
    IF d.areImageProcessingDirty /\ ip.exists
    THEN IF ~ip.ready
         THEN [defines |-> markAsProcessed(d), abort |-> TRUE]
         ELSE [defines |-> prepareDefines(ip, d), abort |-> FALSE]
    ELSE [defines |-> d, abort |-> FALSE]

\* the image-processing block: the defines as the block leaves them, and
\* whether a not-ready configuration made the check return false
ImageProcessingPartition(ip, d) ==
    IF d.areImageProcessingDirty /\ ip.exists
    THEN IF ~ip.ready
         THEN [defines |-> d, abort |-> TRUE]
         ELSE [defines |-> prepareDefines(ip, d), abort |-> FALSE]
    ELSE [defines |-> d, abort |-> FALSE]

\* the misc block
MiscPartition(m, d) ==
    IF d.areMiscDirty
    THEN IF d.REFLECTIONMAP_3D /\ m.enableGroundProjection
         THEN Assign(d, [PROJECTED_GROUND |-> TRUE,
                         REFLECTIONMAP_SKYBOX |-> TRUE])
         ELSE Assign(d, [PROJECTED_GROUND |-> FALSE])
    ELSE d

\* a name that leaves REFLECTIONFRESNEL out of the define key
EffectName_WithoutFresnel(d) ==
    [shader |-> "background",
     defines |-> toString(d) \ {<<"REFLECTIONFRESNEL", 1>>}]

\* the name under which the effect is requested from the engine
EffectName(d) == [shader |-> "background", defines |-> toString(d)]

-----------------------------------------------------------------------------
(* The whole check. The result is the sub-mesh and the engine as the call  *)
(* leaves them, the value returned, and what the call did: the path it     *)
(* returned on, whether it requested an effect (createEffect), whether     *)
(* that request compiled a new effect, whether buildUniformLayout ran.     *)

\* an outcome whose layout is rebuilt by every check that returns true
Outcome_RebuildsWhenReady(sm, eng, path, result, requested, compiled) ==
    [subMesh |-> sm, engine |-> eng, path |-> path, result |-> result,
     requested |-> requested, compiled |-> compiled,
     builtLayout |-> requested \/ result]

Outcome(sm, eng, path, result, requested, compiled) ==
    [subMesh |-> sm, engine |-> eng, path |-> path, result |-> result,
     requested |-> requested, compiled |-> compiled, builtLayout |-> requested]

\* EffectStage compiling an effect of its own for every request instead of
\* asking the engine
EffectStage_BypassesCache(sm, eng, d, useInstances) ==
    LET requested == d.isDirty
        dP == IF requested THEN markAsProcessed(d) ELSE d
        name == EffectName(dP)
        e == [name |-> name, compile |-> Cardinality(EffectsNamed(eng, name)) + 1]
        eng1 == IF requested
                THEN [eng EXCEPT !.effects = @ \cup {e},
                                 !.ready = IF eng.caps.parallelShaderCompile
                                           THEN @ ELSE @ \cup {e}]
                ELSE eng
        effect == IF requested THEN e ELSE sm.effect
    IN  IF effect = NoEffect \/ ~isReady(eng1, effect)
        THEN Outcome([sm EXCEPT !.materialDefines = dP, !.effect = effect],
                     eng1, "effect", FALSE, requested, requested)
        ELSE Outcome([sm EXCEPT
                        !.materialDefines =
                            [dP EXCEPT !.renderIdIsCurrent = TRUE],
                        !.effect = effect,
                        !.wasPreviouslyReady = TRUE,
                        !.wasPreviouslyUsingInstances = {useInstances}],
                     eng1, "ready", TRUE, requested, requested)

\* EffectStage requesting the effect on every call, dirty or not
EffectStage_AlwaysRequest(sm, eng, d, useInstances) ==
    LET dP == markAsProcessed(d)
        ce == createEffect(eng, EffectName(dP))
    IN  IF ~isReady(ce.engine, ce.effect)
        THEN Outcome([sm EXCEPT !.materialDefines = dP, !.effect = ce.effect],
                     ce.engine, "effect", FALSE, TRUE, ce.compiled)
        ELSE Outcome([sm EXCEPT
                        !.materialDefines =
                            [dP EXCEPT !.renderIdIsCurrent = TRUE],
                        !.effect = ce.effect,
                        !.wasPreviouslyReady = TRUE,
                        !.wasPreviouslyUsingInstances = {useInstances}],
                     ce.engine, "ready", TRUE, TRUE, ce.compiled)

\* EffectStage writing the ready bookkeeping before it looks at the effect
EffectStage_RecordsBeforeReady(sm, eng, d, useInstances) ==
    LET requested == d.isDirty
        dP == IF requested THEN markAsProcessed(d) ELSE d
        ce == createEffect(eng, EffectName(dP))
        eng1 == IF requested THEN ce.engine ELSE eng
        effect == IF requested THEN ce.effect ELSE sm.effect
    IN  IF effect = NoEffect \/ ~isReady(eng1, effect)
        THEN Outcome([sm EXCEPT !.materialDefines = dP, !.effect = effect,
                                !.wasPreviouslyReady = TRUE,
                                !.wasPreviouslyUsingInstances = {useInstances}],
                     eng1, "effect", FALSE, requested,
                     requested /\ ce.compiled)
        ELSE Outcome([sm EXCEPT
                        !.materialDefines =
                            [dP EXCEPT !.renderIdIsCurrent = TRUE],
                        !.effect = effect,
                        !.wasPreviouslyReady = TRUE,
                        !.wasPreviouslyUsingInstances = {useInstances}],
                     eng1, "ready", TRUE, requested, requested /\ ce.compiled)

\* from "Get correct effect" to the end
EffectStage(sm, eng, d, useInstances) ==
    LET requested == d.isDirty
        dP == IF requested THEN markAsProcessed(d) ELSE d
        ce == createEffect(eng, EffectName(dP))
        eng1 == IF requested THEN ce.engine ELSE eng
        effect == IF requested THEN ce.effect ELSE sm.effect
    IN  IF effect = NoEffect \/ ~isReady(eng1, effect)
        THEN Outcome([sm EXCEPT !.materialDefines = dP, !.effect = effect],
                     eng1, "effect", FALSE, requested,
                     requested /\ ce.compiled)
        ELSE Outcome([sm EXCEPT
                        !.materialDefines =
                            [dP EXCEPT !.renderIdIsCurrent = TRUE],
                        !.effect = effect,
                        !.wasPreviouslyReady = TRUE,
                        !.wasPreviouslyUsingInstances = {useInstances}],
                     eng1, "ready", TRUE, requested, requested /\ ce.compiled)

\* HandleFallbacksForShadows(defines, fallbacks, maxSimultaneousLights): one
\* fallback per light and shadow define; the scene of the model has no light
\* source, so there is none
HandleFallbacksForShadows(d) == {}

\* the EffectFallbacks built for a request: addFallback(rank, define) for
\* each active define
EffectFallbacks(d) ==
    (IF d.FOG THEN {[rank |-> 0, define |-> "FOG"]} ELSE {})
    \cup (IF d.POINTSIZE THEN {[rank |-> 1, define |-> "POINTSIZE"]} ELSE {})
    \cup (IF d.MULTIVIEW THEN {[rank |-> 0, define |-> "MULTIVIEW"]} ELSE {})
    \cup HandleFallbacksForShadows(d)

\* the fallbacks a check passed to createEffect, none if it requested nothing
RequestFallbacks(o) ==
    IF o.requested THEN EffectFallbacks(o.subMesh.materialDefines) ELSE {}

\* a local variable of the code: v is computed once and F reads the value
Local(v, F(_)) == CHOOSE r \in {F(x) : x \in {v}} : TRUE

\* isReadyForSubMesh(mesh, subMesh, useInstances). The scene of the model has
\* no light source, so PrepareDefinesForLights has no define to write.
isReadyForSubMesh(m, mf, sm, eng, sc, ip, useInstances) ==
    IF FrozenFastPath(m, sm, useInstances)
    THEN Outcome(sm, eng, "frozen", TRUE, FALSE, FALSE)
    ELSE
    Local(IF sm.hasDefines
          THEN sm.materialDefines ELSE BackgroundMaterialDefines, LAMBDA d0 :
    Local([sm EXCEPT !.hasDefines = TRUE, !.materialDefines = d0], LAMBDA sm0 :
    IF SameRenderId(sm0, d0)
    THEN Outcome(sm0, eng, "sameRenderId", TRUE, FALSE, FALSE)
    ELSE
    Local(TexturesPartition(m, mf, sc, eng,
              PrepareDefinesForMultiview(sc, [d0 EXCEPT !.needNormals = TRUE])),
          LAMBDA tex :
    IF tex.abort # "none"
    THEN Outcome([sm0 EXCEPT !.materialDefines = tex.defines], eng,
                 tex.abort, FALSE, FALSE, FALSE)
    ELSE
    Local(ImageProcessingPartition(ip, LightsPartition(m, tex.defines)),
          LAMBDA ipr :
    IF ipr.abort
    THEN Outcome([sm0 EXCEPT !.materialDefines = ipr.defines], eng,
                 "imageProcessing", FALSE, FALSE, FALSE)
    ELSE
    Local(MiscPartition(m, ipr.defines), LAMBDA dM :
    Local(PrepareDefinesForMisc(m, sc, dM), LAMBDA dF :
    Local(PrepareDefinesForFrameBoundValues(dF, useInstances), LAMBDA dI :
    Local(PrepareDefinesForAttributes(dI), LAMBDA dA :
    EffectStage(sm0, eng, dA, useInstances)))))))))

-----------------------------------------------------------------------------
(* The state after construction.                                           *)

\* Numbers of the fov multiplier, in tenths: 10 stands for 1.0. NaN is a
\* value of its own, and Math.min and Math.max return NaN when an argument
\* is NaN
Num(n) == [nan |-> FALSE, v |-> n]
NaN == [nan |-> TRUE, v |-> 0]
isNaN(x) == x.nan
MathMin(a, b) == IF a.nan \/ b.nan THEN NaN ELSE IF a.v < b.v THEN a ELSE b
MathMax(a, b) == IF a.nan \/ b.nan THEN NaN ELSE IF a.v > b.v THEN a ELSE b

\* the fovMultiplier setter without its isNaN test
fovMultiplier_WithoutNaNTest(value) == MathMax(Num(0), MathMin(Num(20), value))

\* set fovMultiplier(value): the value the setter stores
fovMultiplier(value) ==
    LET v == IF isNaN(value) THEN Num(10) ELSE value
    IN  MathMax(Num(0), MathMin(Num(20), v))

\* Color3, with whole channels: Color3.White() is (1, 1, 1)
Color3(r, g, b) == [r |-> r, g |-> g, b |-> b]
White == Color3(1, 1, 1)
Black == Color3(0, 0, 0)
scale(c, k) == Color3(c.r * k, c.g * k, c.b * k)
subtract(c, o) == Color3(c.r - o.r, c.g - o.g, c.b - o.b)
add(c, o) == Color3(c.r + o.r, c.g + o.g, c.b + o.b)

\* the material uniform buffer before its first update: every slot is 0.
\* data keeps the slots whose values the model follows
NewUniformBuffer ==
    [useUbo |-> TRUE, isSync |-> FALSE,
     data |-> [shadowLevel |-> 0, vPrimaryColor |-> Black,
               vPrimaryColorShadow |-> Black]]

\* new BackgroundMaterial(name, scene): the declared property defaults
DefaultMaterial ==
    [isFrozen |-> FALSE,
     diffuseTexture |-> "null", reflectionTexture |-> "null",
     reflectionBlur |-> 0, opacityFresnel |-> TRUE,
     reflectionFresnel |-> FALSE, reflectionFalloffDistance |-> 0,
     useRGBColor |-> TRUE, enableNoise |-> FALSE,
     useEquirectangularFOV |-> FALSE, switchToBGR |-> FALSE,
     shadowOnly |-> FALSE,
     primaryColorShadowLevel |-> 0, primaryColorHighlightLevel |-> 0,
     enableGroundProjection |-> FALSE, alphaMode |-> "ALPHA_COMBINE",
     pointsCloud |-> FALSE, fogEnabled |-> TRUE, shadowLevel |-> 0,
     uniformBuffer |-> NewUniformBuffer,
     primaryColor |-> White, primaryShadowColor |-> Black,
     primaryHighlightColor |-> Black,
     fovMultiplier |-> Num(10), disposed |-> FALSE,
     activeEffect |-> NoEffect]

\* _computePrimaryColors(): the shadow and highlight colours of the current
\* primary colour and levels; nothing when both levels are 0
computePrimaryColors_Always(m) ==
    [m EXCEPT
        !.primaryShadowColor =
            subtract(m.primaryColor,
                     scale(m.primaryColor, m.primaryColorShadowLevel)),
        !.primaryHighlightColor =
            add(m.primaryColor,
                scale(subtract(White, m.primaryColor),
                      m.primaryColorHighlightLevel))]

computePrimaryColors(m) ==
    IF m.primaryColorShadowLevel = 0 /\ m.primaryColorHighlightLevel = 0
    THEN m
    ELSE [m EXCEPT
            !.primaryShadowColor =
                subtract(m.primaryColor,
                         scale(m.primaryColor, m.primaryColorShadowLevel)),
            !.primaryHighlightColor =
                add(m.primaryColor,
                    scale(subtract(White, m.primaryColor),
                          m.primaryColorHighlightLevel))]

\* needAlphaTesting(): the same answer in every state of the material
needAlphaTesting(m) == TRUE

\* a sub-mesh that was never checked: no defines, no effect, a fresh draw
\* wrapper
NewSubMesh ==
    [hasDefines |-> FALSE, materialDefines |-> BackgroundMaterialDefines,
     effect |-> NoEffect, wasPreviouslyReady |-> FALSE,
     wasPreviouslyUsingInstances |-> {}, forceRebindOnNextCall |-> FALSE]

\* cachedMaterial, cachedEffect: the material (this one or not) and the
\* effect the scene remembers as bound last; every mesh has visibility 1.
\* lights is scene.lights, each light with the number of its creation;
\* cameras is scene.cameras likewise, and activeCamera the number of the
\* active camera, 0 for null
DefaultScene ==
    [texturesEnabled |-> TRUE, multiview |-> FALSE,
     useRightHandedSystem |-> FALSE, fogEnabled |-> FALSE,
     cachedMaterial |-> FALSE, cachedEffect |-> NoEffect,
     lights |-> <<>>, lightsCreated |-> 0,
     cameras |-> <<>>, camerasCreated |-> 0, activeCamera |-> 0]

\* scene.resetCachedMaterial()
resetCachedMaterial(sc) ==
    [sc EXCEPT !.cachedMaterial = FALSE, !.cachedEffect = NoEffect]

\* no bindForSubMesh call yet. A call records whether it returned before
\* binding, the must-rebind decision, the updates of the material uniform
\* buffer in call order, and the samplers given to setTexture
NoBind ==
    [subMesh |-> 0, bound |-> FALSE, mustRebind |-> FALSE, uploaded |-> FALSE,
     updates |-> <<>>, samplers |-> {}]

\* the image-processing configurations: the scene's own and two others
SceneConfiguration == "scene"
Configurations == {SceneConfiguration, "A", "B"}

\* onUpdateParameters.remove(observer) of configuration c: the observer
\* leaves the observable if it is registered there
removeObserver(ip, c) ==
    IF ip.observer.registered /\ ip.observer.on = c
    THEN [ip EXCEPT !.observers[c] = @ - 1, !.observer.registered = FALSE]
    ELSE ip

\* _attachImageProcessingConfiguration without the detach step
attachImageProcessingConfiguration_KeepsOldObserver(ip, configuration) ==
    IF configuration = ip.configuration THEN ip
    ELSE LET target == IF configuration = "null" THEN SceneConfiguration
                       ELSE configuration
         IN  [ip EXCEPT !.configuration = target,
                        !.observers[target] = @ + 1,
                        !.observer = [held |-> TRUE, on |-> target,
                                      registered |-> TRUE]]

\* _attachImageProcessingConfiguration(configuration); "null" stands for null.
\* ip.observers[c] counts the callbacks of this material registered on c;
\* ip.observer is the handle the material keeps
attachImageProcessingConfiguration(ip, configuration) ==
    IF configuration = ip.configuration THEN ip
    ELSE LET detached == IF ip.configuration \in Configurations /\ ip.observer.held
                         THEN removeObserver(ip, ip.configuration)
                         ELSE ip
             target == IF configuration = "null" THEN SceneConfiguration
                       ELSE configuration
         IN  [detached EXCEPT !.configuration = target,
                              !.observers[target] = @ + 1,
                              !.observer = [held |-> TRUE, on |-> target,
                                            registered |-> TRUE]]

\* the fields of a material before its constructor attaches a configuration:
\* _imageProcessingConfiguration is declared without a value
NoImageProcessing(ipReady) ==
    [exists |-> TRUE, ready |-> ipReady, toneMappingEnabled |-> FALSE,
     configuration |-> "undefined",
     observer |-> [held |-> FALSE, on |-> "null", registered |-> FALSE],
     observers |-> [c \in Configurations |-> 0],
     updated |-> "null", callbacks |-> 0]

\* the static registry is empty and nothing was asked
\* (Triggers maps its own keys to counts; the other fields are the trigger
\* and the answers of the last query of the three static functions)
NoActions ==
    [Triggers |-> <<>>, asked |-> FALSE, trigger |-> 0, HasTriggers |-> FALSE,
     HasPickTriggers |-> FALSE, HasSpecificTrigger |-> FALSE]

\* no SpriteMap constructed yet. Arrays are indexed from 0 as in the code.
\* sheet is the state of the sprite sheet texture; tickSave, timerPending,
\* timersScheduled and sizeSets follow the size polling: the retries so far,
\* whether a setTimeout is outstanding, how many were scheduled and how many
\* times the poll set spriteMapSize; changes counts the changeTiles calls
NoSpriteMap ==
    [constructed |-> FALSE, sprites |-> <<>>,
     stageSize |-> [x |-> 0, y |-> 0], layerCount |-> 0, baseTile |-> 0,
     frameMap |-> <<>>, tileMaps |-> <<>>,
     sheet |-> "notReady", tickSave |-> 0, timerPending |-> FALSE,
     timersScheduled |-> 0, sizeSets |-> 0, changes |-> 0]

NoCall ==
    [subMesh |-> 0, useInstances |-> FALSE, after |-> "none", path |-> "none",
     result |-> FALSE, requested |-> FALSE, compiled |-> FALSE,
     builtLayout |-> FALSE, fallbacks |-> {}]

\* a default material on n sub-meshes, with engine caps, an image-processing
\* configuration that may still be loading, and the texture objects tx
InitOf(m, n, textureLOD, parallel, ipReady, tx) ==
    /\ material = m
    /\ materialFlags = [DiffuseTextureEnabled |-> TRUE,
                        ReflectionTextureEnabled |-> TRUE]
    /\ subMeshes = [s \in 1..n |-> NewSubMesh]
    /\ engine = [caps |-> [textureLOD |-> textureLOD,
                           parallelShaderCompile |-> parallel],
                 effects |-> {}, ready |-> {}]
    /\ scene = DefaultScene
    /\ imageProcessing =
          attachImageProcessingConfiguration(NoImageProcessing(ipReady), "null")
    /\ textures = tx
    /\ lastCall = NoCall
    /\ lastSetter = "none"
    /\ frame = 0
    /\ lastBind = NoBind
    /\ spriteMap = NoSpriteMap
    /\ actionManager = NoActions

InitWith(n, textureLOD, parallel, ipReady, tx) ==
    InitOf(DefaultMaterial, n, textureLOD, parallel, ipReady, tx)

-----------------------------------------------------------------------------
(* Operations.                                                             *)

\* Material._markAllSubMeshesAsDirty(func): func on the defines of every
\* sub-mesh that has defines
markAllSubMeshesAsDirty(sms, func(_)) ==
    [s \in DOMAIN sms |->
        IF sms[s].hasDefines
        THEN [sms[s] EXCEPT !.materialDefines = func(@)]
        ELSE sms[s]]

\* Material.markDirty(): every draw wrapper forgets that it was ready
markDirty(sms) ==
    [s \in DOMAIN sms |->
        [sms[s] EXCEPT !.wasPreviouslyReady = FALSE,
                       !.wasPreviouslyUsingInstances = {},
                       !.forceRebindOnNextCall = FALSE]]

\* a call of isReadyForSubMesh on sub-mesh s
IsReadyForSubMeshCall(s, useInstances) ==
    \E o \in {isReadyForSubMesh(Resolved(material, textures), materialFlags,
                                subMeshes[s], engine, scene, imageProcessing,
                                useInstances)} :
        /\ subMeshes' = [subMeshes EXCEPT ![s] = o.subMesh]
        /\ engine' = o.engine
        /\ lastCall' = [subMesh |-> s, useInstances |-> useInstances,
                        after |-> lastSetter, path |-> o.path,
                        result |-> o.result, requested |-> o.requested,
                        compiled |-> o.compiled, builtLayout |-> o.builtLayout,
                        fallbacks |-> RequestFallbacks(o)]
        /\ lastSetter' = "none"
        /\ scene' = IF o.requested THEN resetCachedMaterial(scene) ELSE scene
        /\ UNCHANGED <<material, materialFlags, imageProcessing, textures,
                       frame, lastBind, spriteMap, actionManager>>

\* the scene renders its next frame: getRenderId() moves on, so no defines
\* are validated in the current render id
NextFrame ==
    /\ \E s \in DOMAIN subMeshes : subMeshes[s].materialDefines.renderIdIsCurrent
    /\ subMeshes' = [s \in DOMAIN subMeshes |->
                        [subMeshes[s] EXCEPT
                            !.materialDefines.renderIdIsCurrent = FALSE]]
    /\ UNCHANGED <<material, materialFlags, engine, scene, imageProcessing,
                   textures, lastCall, lastSetter, frame, lastBind, spriteMap, actionManager>>

\* a parallel compile ends: the effect reports ready from now on
EffectCompiled(e) ==
    /\ e \in engine.effects \ engine.ready
    /\ engine' = [engine EXCEPT !.ready = @ \cup {e}]
    /\ UNCHANGED <<material, materialFlags, subMeshes, scene, imageProcessing,
                   textures, lastCall, lastSetter, frame, lastBind, spriteMap, actionManager>>

\* the image-processing configuration finishes loading
ImageProcessingLoaded ==
    /\ ~imageProcessing.ready
    /\ imageProcessing' = [imageProcessing EXCEPT !.ready = TRUE]
    /\ UNCHANGED <<material, materialFlags, subMeshes, engine, scene, textures,
                   lastCall, lastSetter, frame, lastBind, spriteMap, actionManager>>

\* material.freeze()
Freeze ==
    /\ ~material.isFrozen
    /\ subMeshes' = markDirty(subMeshes)
    /\ material' = [material EXCEPT !.isFrozen = TRUE]
    /\ UNCHANGED <<materialFlags, engine, scene, imageProcessing, textures,
                   lastCall, lastSetter, frame, lastBind, spriteMap, actionManager>>

\* material.unfreeze()
Unfreeze ==
    /\ material.isFrozen
    /\ subMeshes' = markDirty(subMeshes)
    /\ material' = [material EXCEPT !.isFrozen = FALSE]
    /\ UNCHANGED <<materialFlags, engine, scene, imageProcessing, textures,
                   lastCall, lastSetter, frame, lastBind, spriteMap, actionManager>>

\* a property declared with expandToProperty(callback): an assignment of the
\* value it already has does nothing; any other stores the value and runs
\* the callback, which marks one partition dirty
SetExpanded(property, value, mark(_)) ==
    /\ material[property] # value
    /\ material' = [material EXCEPT ![property] = value]
    /\ subMeshes' = markAllSubMeshesAsDirty(subMeshes, mark)
    /\ lastSetter' = property
    /\ UNCHANGED <<materialFlags, engine, scene, imageProcessing, textures,
                   lastCall, frame, lastBind, spriteMap, actionManager>>

SetEnableNoise(value) == SetExpanded("enableNoise", value, markAsTexturesDirty)
SetUseRGBColor(value) == SetExpanded("useRGBColor", value, markAsTexturesDirty)
SetShadowOnly(value) == SetExpanded("shadowOnly", value, markAsLightDirty)
SetReflectionFresnel(value) ==
    SetExpanded("reflectionFresnel", value, markAsTexturesDirty)
SetDiffuseTexture(value) ==
    SetExpanded("diffuseTexture", value, markAsTexturesDirty)
SetReflectionTexture(value) ==
    SetExpanded("reflectionTexture", value, markAsTexturesDirty)
SetShadowLevel(value) ==
    SetExpanded("shadowLevel", value, markAsTexturesDirty)
SetEnableGroundProjection(value) ==
    SetExpanded("enableGroundProjection", value, markAsMiscDirty)

\* set primaryColorShadowLevel(value)
SetPrimaryColorShadowLevel(value) ==
    /\ material' = computePrimaryColors(
                       [material EXCEPT !.primaryColorShadowLevel = value])
    /\ subMeshes' = markAllSubMeshesAsDirty(subMeshes, markAsLightDirty)
    /\ lastSetter' = "primaryColorShadowLevel"
    /\ UNCHANGED <<materialFlags, engine, scene, imageProcessing, textures,
                   lastCall, frame, lastBind, spriteMap, actionManager>>

\* set primaryColorHighlightLevel(value)
SetPrimaryColorHighlightLevel(value) ==
    /\ material' = computePrimaryColors(
                       [material EXCEPT !.primaryColorHighlightLevel = value])
    /\ subMeshes' = markAllSubMeshesAsDirty(subMeshes, markAsLightDirty)
    /\ lastSetter' = "primaryColorHighlightLevel"
    /\ UNCHANGED <<materialFlags, engine, scene, imageProcessing, textures,
                   lastCall, frame, lastBind, spriteMap, actionManager>>

-----------------------------------------------------------------------------
(* Spec: one sub-mesh of a material without textures; the material is      *)
(* frozen and unfrozen, enableNoise changes, the check is made with and    *)
(* without instances, effects compile in parallel or at once.              *)

Init == \E par \in BOOLEAN, ipr \in BOOLEAN :
            InitWith(1, TRUE, par, ipr, <<>>)

Next ==
    \/ \E s \in DOMAIN subMeshes, u \in BOOLEAN : IsReadyForSubMeshCall(s, u)
    \/ NextFrame
    \/ \E e \in engine.effects : EffectCompiled(e)
    \/ ImageProcessingLoaded
    \/ Freeze
    \/ Unfreeze
    \/ \E v \in BOOLEAN : SetEnableNoise(v)

Spec == Init /\ [][Next]_vars

-----------------------------------------------------------------------------
(* TexSpec: a diffuse and a reflection texture that load while the         *)
(* material is checked; the textures are assigned and removed, the        *)
(* image-processing configuration may still be loading. Effects compile   *)
(* at once.                                                                *)

\* texture.isReady() becomes true (the texture finished loading)
TextureLoaded(id) ==
    /\ ~textures[id].ready
    /\ textures' = [textures EXCEPT ![id].ready = TRUE]
    /\ UNCHANGED <<material, materialFlags, subMeshes, engine, scene,
                   imageProcessing, lastCall, lastSetter, frame, lastBind, spriteMap, actionManager>>

\* a public field without setter: the value is stored, no setter runs and
\* nothing is marked
SetField(property, value) ==
    /\ material[property] # value
    /\ material' = [material EXCEPT ![property] = value]
    /\ UNCHANGED <<materialFlags, subMeshes, engine, scene, imageProcessing,
                   textures, lastCall, lastSetter, frame, lastBind, spriteMap, actionManager>>

SetSwitchToBGR(value) == SetField("switchToBGR", value)
SetUseEquirectangularFOV(value) == SetField("useEquirectangularFOV", value)

\* a 2D texture that is still loading
LoadingTexture(hasAlpha, mode, isCube) ==
    [NullTexture EXCEPT !.isNull = FALSE, !.ready = FALSE,
                        !.hasAlpha = hasAlpha, !.coordinatesMode = mode,
                        !.isCube = isCube]

\* the reflection textures of the model: a cube map in cubic or inverse
\* cubic mode, a 2D texture in planar mode
ReflectionTextures ==
    {LoadingTexture(FALSE, "CUBIC_MODE", TRUE),
     LoadingTexture(FALSE, "INVCUBIC_MODE", TRUE),
     LoadingTexture(FALSE, "PLANAR_MODE", FALSE)}

DiffuseTextures == {LoadingTexture(a, "EXPLICIT_MODE", FALSE) : a \in BOOLEAN}

InitTex ==
    \E lod \in BOOLEAN, ipr \in BOOLEAN :
        InitWith(1, lod, FALSE, ipr,
                 [diffuse |-> LoadingTexture(TRUE, "EXPLICIT_MODE", FALSE),
                  env |-> LoadingTexture(FALSE, "CUBIC_MODE", TRUE)])

NextTex ==
    \/ \E s \in DOMAIN subMeshes : IsReadyForSubMeshCall(s, FALSE)
    \/ NextFrame
    \/ ImageProcessingLoaded
    \/ \E id \in DOMAIN textures : TextureLoaded(id)
    \/ \E id \in {"null", "diffuse"} : SetDiffuseTexture(id)
    \/ \E id \in {"null", "env"} : SetReflectionTexture(id)

TexSpec == InitTex /\ [][NextTex]_vars

-----------------------------------------------------------------------------
(* ReflSpec: a reflection texture that is assigned, removed, disabled      *)
(* through MaterialFlags and re-enabled, while switchToBGR and             *)
(* useEquirectangularFOV are assigned. Effects compile at once.            *)

\* MaterialFlags.ReflectionTextureEnabled = value: every material is marked
\* textures-dirty
SetReflectionTextureEnabled(value) ==
    /\ materialFlags.ReflectionTextureEnabled # value
    /\ materialFlags' = [materialFlags EXCEPT !.ReflectionTextureEnabled = value]
    /\ subMeshes' = markAllSubMeshesAsDirty(subMeshes, markAsTexturesDirty)
    /\ lastSetter' = "ReflectionTextureEnabled"
    /\ UNCHANGED <<material, engine, scene, imageProcessing, textures,
                   lastCall, frame, lastBind, spriteMap, actionManager>>

InitRefl ==
    InitWith(1, TRUE, FALSE, TRUE,
             [env |-> [LoadingTexture(FALSE, "CUBIC_MODE", TRUE)
                          EXCEPT !.ready = TRUE]])

NextRefl ==
    \/ \E s \in DOMAIN subMeshes : IsReadyForSubMeshCall(s, FALSE)
    \/ NextFrame
    \/ \E id \in {"null", "env"} : SetReflectionTexture(id)
    \/ \E v \in BOOLEAN : SetReflectionTextureEnabled(v)
    \/ \E v \in BOOLEAN : SetSwitchToBGR(v)
    \/ \E v \in BOOLEAN : SetUseEquirectangularFOV(v)

ReflSpec == InitRefl /\ [][NextRefl]_vars

-----------------------------------------------------------------------------
(* FrameSpec: the scenario of a material whose textures report not-ready   *)
(* on their first frames. The material has a diffuse and a reflection      *)
(* texture, each not ready on its first notReadyFrames frames and ready    *)
(* afterwards; the image-processing configuration is ready, effects        *)
(* compile at once, nothing else changes. Each frame checks the sub-mesh   *)
(* once.                                                                   *)

\* the textures as they report on frame f
TexturesOnFrame(tx, f) ==
    [id \in DOMAIN tx |-> [tx[id] EXCEPT !.ready = f > tx[id].notReadyFrames]]

\* one frame: the render id moves on, the textures that finished loading
\* report ready, and isReadyForSubMesh is called for the sub-mesh
RenderFrame ==
    /\ frame < MaxNotReadyFrames + MaxExtraFrames
    /\ frame' = frame + 1
    /\ textures' = TexturesOnFrame(textures, frame + 1)
    /\ LET sm == [subMeshes[1] EXCEPT !.materialDefines.renderIdIsCurrent = FALSE]
           o == isReadyForSubMesh(Resolved(material, textures'), materialFlags,
                                  sm, engine, scene, imageProcessing, FALSE)
       IN  /\ subMeshes' = [subMeshes EXCEPT ![1] = o.subMesh]
           /\ engine' = o.engine
           /\ lastCall' = [subMesh |-> 1, useInstances |-> FALSE,
                           after |-> lastSetter, path |-> o.path,
                           result |-> o.result, requested |-> o.requested,
                           compiled |-> o.compiled,
                           builtLayout |-> o.builtLayout,
                           fallbacks |-> RequestFallbacks(o)]
           /\ scene' = IF o.requested
                       THEN resetCachedMaterial(scene) ELSE scene
    /\ UNCHANGED <<material, materialFlags, imageProcessing, lastSetter,
                   lastBind, spriteMap, actionManager>>

InitFrame ==
    \E lod \in BOOLEAN, nd \in 0..MaxNotReadyFrames, nr \in 0..MaxNotReadyFrames :
        InitOf([DefaultMaterial EXCEPT !.diffuseTexture = "diffuse",
                                       !.reflectionTexture = "env"],
               1, lod, FALSE, TRUE,
               TexturesOnFrame(
                   [diffuse |-> [LoadingTexture(TRUE, "EXPLICIT_MODE", FALSE)
                                    EXCEPT !.notReadyFrames = nd],
                    env |-> [LoadingTexture(FALSE, "CUBIC_MODE", TRUE)
                                    EXCEPT !.notReadyFrames = nr]], 0))

NextFrameSpec == RenderFrame

FrameSpec == InitFrame /\ [][NextFrameSpec]_vars

-----------------------------------------------------------------------------
(* LiveSpec: the sub-mesh is checked again and again while the diffuse     *)
(* texture and the image-processing configuration load and the engine      *)
(* compiles effects in parallel; diffuseTexture is assigned and removed in *)
(* between. The render loop keeps calling the check, and every load and    *)
(* every compile finishes.                                                 *)

InitLive ==
    \E lod \in BOOLEAN, ipr \in BOOLEAN :
        InitWith(1, lod, TRUE, ipr,
                 [diffuse |-> LoadingTexture(TRUE, "EXPLICIT_MODE", FALSE)])

\* a property of the material is assigned
PropertyChange == \E id \in {"null", "diffuse"} : SetDiffuseTexture(id)

Check == \E s \in DOMAIN subMeshes : IsReadyForSubMeshCall(s, FALSE)
Compile == \E e \in engine.effects : EffectCompiled(e)
Load == \E id \in DOMAIN textures : TextureLoaded(id)

NextLive ==
    \/ Check
    \/ NextFrame
    \/ Compile
    \/ Load
    \/ ImageProcessingLoaded
    \/ PropertyChange

LiveSpec ==
    /\ InitLive
    /\ [][NextLive]_vars
    /\ WF_vars(Check)
    /\ WF_vars(NextFrame)
    /\ WF_vars(Compile)
    /\ WF_vars(Load)
    /\ WF_vars(ImageProcessingLoaded)

-----------------------------------------------------------------------------
(* LightsSpec: a material without textures, created in RGB or non-RGB      *)
(* color mode, whose primaryColorShadowLevel, primaryColorHighlightLevel   *)
(* and shadowOnly are assigned between the checks of its sub-mesh.         *)

InitLights ==
    \E lod \in BOOLEAN, rgb \in BOOLEAN :
        InitOf([DefaultMaterial EXCEPT !.useRGBColor = rgb],
               1, lod, FALSE, TRUE, <<>>)

NextLights ==
    \/ \E s \in DOMAIN subMeshes : IsReadyForSubMeshCall(s, FALSE)
    \/ NextFrame
    \/ \E v \in 0..MaxLevel : SetPrimaryColorShadowLevel(v)
    \/ \E v \in 0..MaxLevel : SetPrimaryColorHighlightLevel(v)
    \/ \E v \in BOOLEAN : SetShadowOnly(v)

LightsSpec == InitLights /\ [][NextLights]_vars

-----------------------------------------------------------------------------
(* CacheSpec: several sub-meshes of one material request their effects     *)
(* from the same engine, with and without instances.                       *)

InitCache ==
    \E par \in BOOLEAN : InitWith(MaxSubMeshes, TRUE, par, TRUE, <<>>)

NextCache ==
    \/ \E s \in DOMAIN subMeshes, u \in BOOLEAN : IsReadyForSubMeshCall(s, u)
    \/ NextFrame
    \/ Compile

CacheSpec == InitCache /\ [][NextCache]_vars

-----------------------------------------------------------------------------
(* ToggleSpec: the scenario of reflectionFresnel toggled on consecutive    *)
(* frames. The material has a ready reflection texture; before the first   *)
(* toggle it may or may not have been checked. From then on each frame     *)
(* assigns reflectionFresnel the opposite value (true on frame 1) and      *)
(* checks the sub-mesh; nothing else changes, effects may still compile.   *)

\* one frame of the scenario: reflectionFresnel = value (the setter marks
\* textures dirty), the render id moves on, isReadyForSubMesh is called
ToggleFrame ==
    /\ frame < MaxToggles
    /\ frame' = frame + 1
    /\ material' = [material EXCEPT !.reflectionFresnel = ~@]
    /\ \E o \in {isReadyForSubMesh(
                    Resolved(material', textures), materialFlags,
                    [markAllSubMeshesAsDirty(subMeshes, markAsTexturesDirty)[1]
                        EXCEPT !.materialDefines.renderIdIsCurrent = FALSE],
                    engine, scene, imageProcessing, FALSE)} :
        /\ subMeshes' = [subMeshes EXCEPT ![1] = o.subMesh]
        /\ engine' = o.engine
        /\ lastCall' = [subMesh |-> 1, useInstances |-> FALSE,
                        after |-> "reflectionFresnel", path |-> o.path,
                        result |-> o.result, requested |-> o.requested,
                        compiled |-> o.compiled,
                        builtLayout |-> o.builtLayout,
                        fallbacks |-> RequestFallbacks(o)]
        /\ scene' = IF o.requested THEN resetCachedMaterial(scene) ELSE scene
    /\ lastSetter' = "none"
    /\ UNCHANGED <<materialFlags, imageProcessing, textures, lastBind, spriteMap, actionManager>>

\* the material is checked before the scenario starts
CheckBeforeToggles ==
    /\ frame = 0
    /\ IsReadyForSubMeshCall(1, FALSE)

InitToggle ==
    \E lod \in BOOLEAN, par \in BOOLEAN, rt \in ReflectionTextures,
       bgr \in BOOLEAN :
        InitOf([DefaultMaterial EXCEPT !.reflectionTexture = "env",
                                       !.switchToBGR = bgr],
               1, lod, par, TRUE, [env |-> [rt EXCEPT !.ready = TRUE]])

NextToggle ==
    \/ CheckBeforeToggles
    \/ ToggleFrame
    \/ Compile

ToggleSpec == InitToggle /\ [][NextToggle]_vars

-----------------------------------------------------------------------------
(* bindForSubMesh. The material uniform buffer is material.uniformBuffer:  *)
(* useUbo (the engine supports uniform buffer objects) and isSync (nothing *)
(* written since the last upload).                                         *)

\* the uniforms buildUniformLayout declares
LayoutSlots ==
    {"vPrimaryColor", "vPrimaryColorShadow", "vDiffuseInfos",
     "vReflectionInfos", "diffuseMatrix", "reflectionMatrix",
     "vReflectionMicrosurfaceInfos", "fFovMultiplier", "pointSize",
     "shadowLevel", "alpha", "vBackgroundCenter", "vReflectionControl",
     "projectedGroundInfos"}

\* Material._mustRebind: a forced rebind, or the scene's cached material or
\* effect is another one
mustRebind(sc, effect, sm) ==
    \/ sm.forceRebindOnNextCall
    \/ ~sc.cachedMaterial
    \/ sc.cachedEffect # effect

When(cond, seq) == IF cond THEN seq ELSE <<>>

\* the uniform updates of the block that a frozen material with a
\* synchronized uniform buffer object skips
UploadBlock(m, mf, sc, d) ==
    When(sc.texturesEnabled,
         When(UseDiffuse(m, mf), <<"vDiffuseInfos", "diffuseMatrix">>)
         \o When(UseReflection(m, mf),
                 <<"reflectionMatrix", "vReflectionInfos",
                   "vReflectionMicrosurfaceInfos">>))
    \o When(m.shadowLevel > 0, <<"shadowLevel">>)
    \o <<"alpha">>
    \o When(m.pointsCloud, <<"pointSize">>)
    \o (IF d.USEHIGHLIGHTANDSHADOWCOLORS
        THEN <<"vPrimaryColor", "vPrimaryColorShadow">>
        ELSE <<"vPrimaryColor">>)

\* the values the same block leaves in the slots the model follows
UploadValues(m, d, data) ==
    [data EXCEPT
        !.shadowLevel = IF m.shadowLevel > 0 THEN m.shadowLevel ELSE @,
        !.vPrimaryColor = IF d.USEHIGHLIGHTANDSHADOWCOLORS
                          THEN m.primaryHighlightColor ELSE m.primaryColor,
        !.vPrimaryColorShadow = IF d.USEHIGHLIGHTANDSHADOWCOLORS
                                THEN m.primaryShadowColor ELSE @]

\* the uniform updates of the texture section
TextureSectionUpdates(m, mf, sc, d) ==
    When(sc.texturesEnabled,
         When(UseReflection(m, mf) /\ d.REFLECTIONFRESNEL,
              <<"vBackgroundCenter", "vReflectionControl">>)
         \o When(d.PROJECTED_GROUND, <<"projectedGroundInfos">>))

\* the samplers the texture section gives to setTexture
TextureSectionSamplers(m, mf, sc, d) ==
    IF ~sc.texturesEnabled THEN {}
    ELSE (IF UseDiffuse(m, mf) THEN {"diffuseSampler"} ELSE {})
         \cup (IF ~UseReflection(m, mf) THEN {}
               ELSE IF d.REFLECTIONBLUR /\ ~d.TEXTURELODSUPPORT
               THEN {"reflectionSampler", "reflectionSamplerLow",
                     "reflectionSamplerHigh"}
               ELSE {"reflectionSampler"})

\* bindForSubMesh past its guards: the material, the sub-mesh and the scene
\* as the call leaves them, and what the call did
BindPass(m, mf, sm, sc) ==
    LET d == sm.materialDefines
        rebind == mustRebind(sc, sm.effect, sm)
        upload == \/ ~m.uniformBuffer.useUbo
                  \/ ~m.isFrozen
                  \/ ~m.uniformBuffer.isSync
                  \/ sm.forceRebindOnNextCall
    IN  [material |-> [m EXCEPT !.uniformBuffer.isSync = TRUE,
                                !.uniformBuffer.data =
                                    IF rebind /\ upload
                                    THEN UploadValues(m, d, @) ELSE @,
                                !.activeEffect = sm.effect],
         subMesh |-> [sm EXCEPT !.forceRebindOnNextCall = FALSE],
         scene |-> [sc EXCEPT !.cachedMaterial = TRUE,
                              !.cachedEffect = sm.effect],
         bound |-> TRUE,
         mustRebind |-> rebind,
         uploaded |-> rebind /\ upload,
         updates |-> When(rebind,
                          When(upload, UploadBlock(m, mf, sc, d))
                          \o <<"fFovMultiplier">>
                          \o TextureSectionUpdates(m, mf, sc, d)),
         samplers |-> IF rebind
                      THEN TextureSectionSamplers(m, mf, sc, d) ELSE {}]

\* bindForSubMesh without its two guards
bindForSubMesh_Unguarded(m, mf, sm, sc) == BindPass(m, mf, sm, sc)

\* bindForSubMesh(world, mesh, subMesh): nothing for a sub-mesh without
\* defines or without effect, the binding pass otherwise
bindForSubMesh(m, mf, sm, sc) ==
    IF ~sm.hasDefines \/ sm.effect = NoEffect
    THEN [material |-> m, subMesh |-> sm, scene |-> sc,
          bound |-> FALSE, mustRebind |-> FALSE, uploaded |-> FALSE,
          updates |-> <<>>, samplers |-> {}]
    ELSE BindPass(m, mf, sm, sc)

\* a call of bindForSubMesh for sub-mesh s
BindForSubMeshCall(s) ==
    \E o \in {bindForSubMesh(Resolved(material, textures), materialFlags,
                             subMeshes[s], scene)} :
        /\ material' = [material EXCEPT
                            !.uniformBuffer = o.material.uniformBuffer,
                            !.activeEffect = o.material.activeEffect]
        /\ subMeshes' = [subMeshes EXCEPT ![s] = o.subMesh]
        /\ scene' = o.scene
        /\ lastBind' = [subMesh |-> s, bound |-> o.bound,
                        mustRebind |-> o.mustRebind, uploaded |-> o.uploaded,
                        updates |-> o.updates, samplers |-> o.samplers]
        /\ UNCHANGED <<materialFlags, engine, imageProcessing, textures,
                       lastCall, lastSetter, frame, spriteMap, actionManager>>

\* scene.resetCachedMaterial(), as the scene calls it before it renders for
\* a camera and when another material was bound
ResetCachedMaterial ==
    /\ scene.cachedMaterial
    /\ scene' = resetCachedMaterial(scene)
    /\ UNCHANGED <<material, materialFlags, subMeshes, engine, imageProcessing,
                   textures, lastCall, lastSetter, frame, lastBind, spriteMap, actionManager>>

\* material.markDirty(true), as after the backend resources were recreated:
\* the draw wrappers forget they were ready and force the next rebind, and
\* every partition is marked dirty
MarkDirtyForced ==
    /\ \E s \in DOMAIN subMeshes : ~subMeshes[s].forceRebindOnNextCall
    /\ subMeshes' =
          [s \in DOMAIN subMeshes |->
              [markAllSubMeshesAsDirty(markDirty(subMeshes),
                                       markAllAsDirty)[s]
                  EXCEPT !.forceRebindOnNextCall = TRUE]]
    /\ lastSetter' = "markDirty"
    /\ UNCHANGED <<material, materialFlags, engine, scene, imageProcessing,
                   textures, lastCall, frame, lastBind, spriteMap, actionManager>>

(* BindSpec: a material with or without uniform buffer objects, with a     *)
(* ready diffuse texture that is assigned and removed, is checked, bound,  *)
(* frozen and unfrozen; shadowLevel is assigned.                           *)

InitBind ==
    \E ubo \in BOOLEAN :
        InitOf([DefaultMaterial EXCEPT !.uniformBuffer.useUbo = ubo],
               1, TRUE, FALSE, TRUE,
               [diffuse |-> [LoadingTexture(FALSE, "EXPLICIT_MODE", FALSE)
                                EXCEPT !.ready = TRUE]])

NextBind ==
    \/ \E s \in DOMAIN subMeshes : IsReadyForSubMeshCall(s, FALSE)
    \/ \E s \in DOMAIN subMeshes : BindForSubMeshCall(s)
    \/ NextFrame
    \/ ResetCachedMaterial
    \/ MarkDirtyForced
    \/ Freeze
    \/ Unfreeze
    \/ \E id \in {"null", "diffuse"} : SetDiffuseTexture(id)
    \/ \E v \in 0..MaxLevel : SetShadowLevel(v)

BindSpec == InitBind /\ [][NextBind]_vars

-----------------------------------------------------------------------------
(* The image-processing observer and dispose.                              *)

\* set imageProcessingConfiguration(value)
SetImageProcessingConfiguration(value) ==
    /\ imageProcessing' = attachImageProcessingConfiguration(imageProcessing, value)
    /\ subMeshes' = markAllSubMeshesAsDirty(subMeshes, markAsTexturesDirty)
    /\ lastSetter' = "imageProcessingConfiguration"
    /\ UNCHANGED <<material, materialFlags, engine, scene, textures, lastCall,
                   frame, lastBind, spriteMap, actionManager>>

\* configuration c notifies onUpdateParameters: every callback this material
\* has registered on c runs and marks the image-processing partition dirty
UpdateParameters(c) ==
    /\ imageProcessing' = [imageProcessing EXCEPT
                              !.updated = c, !.callbacks = imageProcessing.observers[c]]
    /\ subMeshes' = IF imageProcessing.observers[c] > 0
                    THEN markAllSubMeshesAsDirty(subMeshes,
                                                 markAsImageProcessingDirty)
                    ELSE subMeshes
    /\ lastSetter' = "onUpdateParameters"
    /\ UNCHANGED <<material, materialFlags, engine, scene, textures, lastCall,
                   frame, lastBind, spriteMap, actionManager>>

\* material.dispose(): the observer leaves the configuration in use, and
\* Material.dispose takes the material off every mesh that uses it, so that
\* it has no sub-mesh left
Dispose ==
    /\ ~material.disposed
    /\ material' = [material EXCEPT !.disposed = TRUE]
    /\ imageProcessing' =
          IF imageProcessing.configuration \in Configurations
             /\ imageProcessing.observer.held
          THEN removeObserver(imageProcessing, imageProcessing.configuration)
          ELSE imageProcessing
    /\ subMeshes' = <<>>
    /\ lastSetter' = "dispose"
    /\ UNCHANGED <<materialFlags, engine, scene, textures, lastCall, frame,
                   lastBind, spriteMap, actionManager>>

(* ObserverSpec: configurations are assigned and notify; the material is   *)
(* checked in between.                                                     *)

InitObserver == InitWith(MaxSubMeshes, TRUE, FALSE, TRUE, <<>>)

NextObserver ==
    \/ \E v \in Configurations \cup {"null"} : SetImageProcessingConfiguration(v)
    \/ \E c \in Configurations : UpdateParameters(c)
    \/ \E s \in DOMAIN subMeshes : IsReadyForSubMeshCall(s, FALSE)
    \/ NextFrame

ObserverSpec == InitObserver /\ [][NextObserver]_vars

(* DisposeSpec: one sub-mesh; configurations are assigned and notify, a    *)
(* property is set, and the material is disposed at some point.            *)

InitDispose == InitWith(1, TRUE, FALSE, TRUE, <<>>)

NextDispose ==
    \/ \E v \in Configurations \cup {"null"} : SetImageProcessingConfiguration(v)
    \/ \E c \in Configurations : UpdateParameters(c)
    \/ \E s \in DOMAIN subMeshes : IsReadyForSubMeshCall(s, FALSE)
    \/ \E v \in BOOLEAN : SetEnableNoise(v)
    \/ Dispose

DisposeSpec == InitDispose /\ [][NextDispose]_vars

-----------------------------------------------------------------------------
(* FallbackSpec: a material drawn as triangles or as points, with one      *)
(* sub-mesh; fog and multiview come and go and the material is checked in  *)
(* between.                                                                *)

\* scene.fogEnabled = value: every material is marked misc dirty
SetSceneFogEnabled(value) ==
    /\ scene.fogEnabled # value
    /\ scene' = [scene EXCEPT !.fogEnabled = value]
    /\ subMeshes' = markAllSubMeshesAsDirty(subMeshes, markAsMiscDirty)
    /\ lastSetter' = "scene.fogEnabled"
    /\ UNCHANGED <<material, materialFlags, engine, imageProcessing, textures,
                   lastCall, frame, lastBind, spriteMap, actionManager>>

\* the active camera starts or stops rendering to a multiview target
SetMultiview(value) ==
    /\ scene.multiview # value
    /\ scene' = [scene EXCEPT !.multiview = value]
    /\ lastSetter' = "multiview"
    /\ UNCHANGED <<material, materialFlags, subMeshes, engine, imageProcessing,
                   textures, lastCall, frame, lastBind, spriteMap, actionManager>>

InitFallback ==
    \E pointsCloud \in BOOLEAN :
        InitOf([DefaultMaterial EXCEPT !.pointsCloud = pointsCloud],
               1, TRUE, FALSE, TRUE, <<>>)

NextFallback ==
    \/ \E s \in DOMAIN subMeshes : IsReadyForSubMeshCall(s, FALSE)
    \/ NextFrame
    \/ \E v \in BOOLEAN : SetSceneFogEnabled(v)
    \/ \E v \in BOOLEAN : SetMultiview(v)

FallbackSpec == InitFallback /\ [][NextFallback]_vars

-----------------------------------------------------------------------------
(* FovSpec: fovMultiplier is assigned numbers inside and outside [0, 2]    *)
(* and NaN, on a material that is checked and bound in between.            *)

FovInputs == {NaN} \cup {Num(n) : n \in (0 - MaxFovExcess)..(20 + MaxFovExcess)}

\* material.fovMultiplier = value
SetFovMultiplier(value) ==
    /\ material' = [material EXCEPT !.fovMultiplier = fovMultiplier(value)]
    /\ lastSetter' = IF isNaN(value) THEN "fovMultiplier = NaN"
                     ELSE "fovMultiplier"
    /\ UNCHANGED <<materialFlags, subMeshes, engine, scene, imageProcessing,
                   textures, lastCall, frame, lastBind, spriteMap, actionManager>>

InitFov == InitWith(1, TRUE, FALSE, TRUE, <<>>)

NextFov ==
    \/ \E value \in FovInputs : SetFovMultiplier(value)
    \/ \E s \in DOMAIN subMeshes : IsReadyForSubMeshCall(s, FALSE)
    \/ \E s \in DOMAIN subMeshes : BindForSubMeshCall(s)

FovSpec == InitFov /\ [][NextFov]_vars

-----------------------------------------------------------------------------
(* Scene helpers: createDefaultLight.                                      *)

\* the array without its element at (0-based) index i
SpliceOut(lights, i) ==
    [k \in 1..(Len(lights) - 1) |-> IF k <= i THEN lights[k] ELSE lights[k + 1]]

\* for (let i = 0; i < this.lights.length; i++) this.lights[i].dispose(),
\* from index i on; dispose() takes the light out of scene.lights
RECURSIVE DisposeLights(_, _)
DisposeLights(lights, i) ==
    IF i < Len(lights) THEN DisposeLights(SpliceOut(lights, i), i + 1)
    ELSE lights

\* scene.createDefaultLight(replace)
createDefaultLight(sc, replace) ==
    LET kept == IF replace THEN DisposeLights(sc.lights, 0) ELSE sc.lights
    IN  IF Len(kept) = 0
        THEN [sc EXCEPT !.lights = <<[id |-> sc.lightsCreated + 1,
                                      name |-> "default light"]>>,
                        !.lightsCreated = @ + 1]
        ELSE [sc EXCEPT !.lights = kept]

CreateDefaultLightCall(replace) ==
    /\ scene.lightsCreated < MaxLights
    /\ scene' = createDefaultLight(scene, replace)
    /\ lastSetter' = IF replace THEN "createDefaultLight(true)"
                     ELSE "createDefaultLight(false)"
    /\ UNCHANGED <<material, materialFlags, subMeshes, engine, imageProcessing,
                   textures, lastCall, frame, lastBind, spriteMap, actionManager>>

\* new Light(name, scene): the light joins scene.lights
NewLight ==
    /\ scene.lightsCreated < MaxLights
    /\ scene' = [scene EXCEPT
                    !.lights = Append(@, [id |-> scene.lightsCreated + 1,
                                          name |-> "light"]),
                    !.lightsCreated = @ + 1]
    /\ lastSetter' = "new Light"
    /\ UNCHANGED <<material, materialFlags, subMeshes, engine, imageProcessing,
                   textures, lastCall, frame, lastBind, spriteMap, actionManager>>

\* scene.lights[i].dispose(), i counted from 0
DisposeLight(i) ==
    /\ i < Len(scene.lights)
    /\ scene' = [scene EXCEPT !.lights = SpliceOut(@, i)]
    /\ lastSetter' = "light.dispose"
    /\ UNCHANGED <<material, materialFlags, subMeshes, engine, imageProcessing,
                   textures, lastCall, frame, lastBind, spriteMap, actionManager>>

InitDefaultLight == InitWith(1, TRUE, FALSE, TRUE, <<>>)

NextDefaultLight ==
    \/ NewLight
    \/ \E i \in 0..(MaxLights - 1) : DisposeLight(i)
    \/ \E replace \in BOOLEAN : CreateDefaultLightCall(replace)

DefaultLightSpec == InitDefaultLight /\ [][NextDefaultLight]_vars

-----------------------------------------------------------------------------
(* Scene helpers: createDefaultCamera.                                     *)

\* the cameras without the one numbered id
WithoutCamera(cameras, id) == SelectSeq(cameras, LAMBDA c : c.id # id)

\* camera.dispose() of the camera numbered id: it leaves scene.cameras, and
\* if it was the active camera the scene takes its first camera, or none
disposeCamera(sc, id) ==
    LET rest == WithoutCamera(sc.cameras, id)
    IN  [sc EXCEPT !.cameras = rest,
                   !.activeCamera = IF sc.activeCamera # id THEN @
                                    ELSE IF Len(rest) > 0 THEN rest[1].id
                                    ELSE 0]

\* new ArcRotateCamera / FreeCamera(name, ..., scene): the camera joins
\* scene.cameras and becomes the active camera if there is none
newCamera(sc, name, kind) ==
    [sc EXCEPT !.cameras = Append(@, [id |-> sc.camerasCreated + 1,
                                      name |-> name, kind |-> kind,
                                      attached |-> FALSE]),
               !.camerasCreated = @ + 1,
               !.activeCamera = IF @ = 0 THEN sc.camerasCreated + 1 ELSE @]

\* camera.attachControl() of the camera numbered id
attachControl(sc, id) ==
    [sc EXCEPT !.cameras = [k \in DOMAIN sc.cameras |->
                               IF sc.cameras[k].id = id
                               THEN [sc.cameras[k] EXCEPT !.attached = TRUE]
                               ELSE sc.cameras[k]]]

\* createDefaultCamera that leaves scene.activeCamera as dispose() left it
createDefaultCamera_KeepsSceneChoice(sc, createArcRotateCamera, replace, attachCameraControls) ==
    LET sc1 == IF replace /\ sc.activeCamera # 0
               THEN disposeCamera(sc, sc.activeCamera)
               ELSE sc
    IN  IF sc1.activeCamera # 0 THEN sc1
        ELSE LET id == sc1.camerasCreated + 1
                 sc2 == newCamera(sc1, "default camera",
                                  IF createArcRotateCamera
                                  THEN "ArcRotateCamera" ELSE "FreeCamera")
                 sc3 == [sc2 EXCEPT !.activeCamera = id]
             IN  IF attachCameraControls THEN attachControl(sc3, id) ELSE sc3

\* scene.createDefaultCamera(createArcRotateCamera, replace,
\* attachCameraControls)
createDefaultCamera(sc, createArcRotateCamera, replace, attachCameraControls) ==
    LET sc1 == IF replace /\ sc.activeCamera # 0
               THEN [disposeCamera(sc, sc.activeCamera)
                        EXCEPT !.activeCamera = 0]
               ELSE sc
    IN  IF sc1.activeCamera # 0 THEN sc1
        ELSE LET id == sc1.camerasCreated + 1
                 sc2 == newCamera(sc1, "default camera",
                                  IF createArcRotateCamera
                                  THEN "ArcRotateCamera" ELSE "FreeCamera")
                 sc3 == [sc2 EXCEPT !.activeCamera = id]
             IN  IF attachCameraControls THEN attachControl(sc3, id) ELSE sc3

CreateDefaultCameraCall(createArcRotateCamera, replace, attachCameraControls) ==
    /\ scene.camerasCreated < MaxCameras
    /\ scene' = createDefaultCamera(scene, createArcRotateCamera, replace,
                                    attachCameraControls)
    /\ lastSetter' = IF replace THEN "createDefaultCamera(replace)"
                     ELSE "createDefaultCamera"
    /\ UNCHANGED <<material, materialFlags, subMeshes, engine, imageProcessing,
                   textures, lastCall, frame, lastBind, spriteMap, actionManager>>

\* new FreeCamera("camera", position, scene)
NewCamera ==
    /\ scene.camerasCreated < MaxCameras
    /\ scene' = newCamera(scene, "camera", "FreeCamera")
    /\ lastSetter' = "new Camera"
    /\ UNCHANGED <<material, materialFlags, subMeshes, engine, imageProcessing,
                   textures, lastCall, frame, lastBind, spriteMap, actionManager>>

\* scene.cameras[i].dispose(), i counted from 0
DisposeCamera(i) ==
    /\ i < Len(scene.cameras)
    /\ scene' = disposeCamera(scene, scene.cameras[i + 1].id)
    /\ lastSetter' = "camera.dispose"
    /\ UNCHANGED <<material, materialFlags, subMeshes, engine, imageProcessing,
                   textures, lastCall, frame, lastBind, spriteMap, actionManager>>

\* scene.activeCamera = one of the scene's cameras, or null
SetActiveCamera(id) ==
    /\ id = 0 \/ \E k \in DOMAIN scene.cameras : scene.cameras[k].id = id
    /\ scene.activeCamera # id
    /\ scene' = [scene EXCEPT !.activeCamera = id]
    /\ lastSetter' = "activeCamera"
    /\ UNCHANGED <<material, materialFlags, subMeshes, engine, imageProcessing,
                   textures, lastCall, frame, lastBind, spriteMap, actionManager>>

InitDefaultCamera == InitWith(1, TRUE, FALSE, TRUE, <<>>)

NextDefaultCamera ==
    \/ NewCamera
    \/ \E i \in 0..(MaxCameras - 1) : DisposeCamera(i)
    \/ \E id \in 0..MaxCameras : SetActiveCamera(id)
    \/ \E a, r, c \in BOOLEAN : CreateDefaultCameraCall(a, r, c)

DefaultCameraSpec == InitDefaultCamera /\ [][NextDefaultCamera]_vars

-----------------------------------------------------------------------------
(* DirtySpec: a material with a diffuse texture; each of the four          *)
(* partitions is marked dirty by a setter of its own, and the texture and  *)
(* the image-processing configuration start not ready, so that checks      *)
(* abort.                                                                  *)

InitDirty ==
    InitOf([DefaultMaterial EXCEPT !.diffuseTexture = "diffuse"],
           1, TRUE, FALSE, FALSE,
           [diffuse |-> LoadingTexture(TRUE, "EXPLICIT_MODE", FALSE)])

NextDirty ==
    \/ \E s \in DOMAIN subMeshes : IsReadyForSubMeshCall(s, FALSE)
    \/ NextFrame
    \/ ImageProcessingLoaded
    \/ \E id \in DOMAIN textures : TextureLoaded(id)
    \/ \E v \in BOOLEAN : SetUseRGBColor(v)
    \/ \E v \in {0, MaxLevel} : SetPrimaryColorShadowLevel(v)
    \/ UpdateParameters(SceneConfiguration)
    \/ \E v \in BOOLEAN : SetEnableGroundProjection(v)

DirtySpec == InitDirty /\ [][NextDirty]_vars

-----------------------------------------------------------------------------
(* ModeSpec: a material with a ready cube reflection texture whose         *)
(* coordinatesMode is changed between checks.                              *)

\* the modes the reflection texture is switched between
SwitchedModes == {"PLANAR_MODE", "CUBIC_MODE", "INVCUBIC_MODE"}

\* texture.coordinatesMode = mode: the materials that use the texture are
\* marked textures dirty
SetCoordinatesMode(id, mode) ==
    /\ textures[id].coordinatesMode # mode
    /\ textures' = [textures EXCEPT ![id].coordinatesMode = mode]
    /\ subMeshes' = markAllSubMeshesAsDirty(subMeshes, markAsTexturesDirty)
    /\ lastSetter' = "coordinatesMode"
    /\ UNCHANGED <<material, materialFlags, engine, scene, imageProcessing,
                   lastCall, frame, lastBind, spriteMap, actionManager>>

InitMode ==
    \E mode \in SwitchedModes :
        InitOf([DefaultMaterial EXCEPT !.reflectionTexture = "env"],
               1, TRUE, FALSE, TRUE,
               [env |-> [LoadingTexture(FALSE, mode, TRUE)
                            EXCEPT !.ready = TRUE]])

NextMode ==
    \/ \E s \in DOMAIN subMeshes : IsReadyForSubMeshCall(s, FALSE)
    \/ NextFrame
    \/ \E mode \in SwitchedModes : SetCoordinatesMode("env", mode)

ModeSpec == InitMode /\ [][NextMode]_vars

-----------------------------------------------------------------------------
(* GuardSpec: sub-meshes are bound at any time, before their first check   *)
(* and after a check that the image-processing configuration aborted.      *)

InitGuard == InitWith(MaxSubMeshes, TRUE, FALSE, FALSE, <<>>)

NextGuard ==
    \/ \E s \in DOMAIN subMeshes : IsReadyForSubMeshCall(s, FALSE)
    \/ \E s \in DOMAIN subMeshes : BindForSubMeshCall(s)
    \/ NextFrame
    \/ ImageProcessingLoaded
    \/ ResetCachedMaterial
    \/ \E v \in 0..MaxLevel : SetShadowLevel(v)

GuardSpec == InitGuard /\ [][NextGuard]_vars

-----------------------------------------------------------------------------
(* SpriteMap: the frame buffer, the tile buffers and the size polling.     *)
(* Buffers are functions over 0..n-1, as the arrays of the code.           *)

\* an array of n zeros
Zeros(n) == [k \in 0..(n - 1) |-> 0]

\* the i-th sprite of the atlases of the scenarios: every field differs
\* from every other and from 0
SpriteOf(n) ==
    [frame |-> [x |-> 10 * n + 1, y |-> 10 * n + 2,
                w |-> 10 * n + 3, h |-> 10 * n + 4],
     spriteSourceSize |-> [x |-> 10 * n + 5, y |-> 10 * n + 6,
                           w |-> 10 * n + 7, h |-> 10 * n + 8],
     sourceSize |-> [w |-> 10 * n + 9, h |-> 10 * n + 10],
     rotated |-> (n % 2 = 1),
     trimmed |-> (n % 2 = 0)]

\* atlasJSON.frames of up to MaxSprites sprites
Atlases ==
    UNION {[1..n -> {SpriteOf(k) : k \in 1..MaxSprites}] : n \in 0..MaxSprites}

\* the second pass of _createFrameBuffer, from sprite i on
RECURSIVE SecondPass(_, _, _)
SecondPass(data, sprites, i) ==
    LET spriteCount == Len(sprites) IN
    IF i >= spriteCount THEN data
    ELSE
        LET f == sprites[i + 1].frame
            sss == sprites[i + 1].spriteSourceSize
            ss == sprites[i + 1].sourceSize
            r == IF sprites[i + 1].rotated THEN 1 ELSE 0
            t == IF sprites[i + 1].trimmed THEN 1 ELSE 0
        IN  SecondPass(
                [data EXCEPT ![i * 4] = f.x,
                             ![i * 4 + 1] = f.y,
                             ![i * 4 + 2] = f.w,
                             ![i * 4 + 3] = f.h,
                             ![i * 4 + spriteCount * 4] = sss.x,
                             ![i * 4 + 1 + spriteCount * 4] = sss.y,
                             ![i * 4 + 3 + spriteCount * 4] = sss.h,
                             ![i * 4 + spriteCount * 8] = ss.w,
                             ![i * 4 + 1 + spriteCount * 8] = ss.h,
                             ![i * 4 + 2 + spriteCount * 8] = r,
                             ![i * 4 + 3 + spriteCount * 8] = t],
                sprites, i + 1)

\* SpriteMap._createFrameBuffer: the data of the spriteCount x 4 texture
createFrameBuffer(sprites) ==
    SecondPass(Zeros(16 * Len(sprites)), sprites, 0)

\* SpriteMap._createTileBuffer(buffer, _layer): the data of the stage-sized
\* texture; NoBuffer stands for the null of the constructor's calls
NoBuffer == <<>>

createTileBuffer(sm, buffer, layer) ==
    LET ty == sm.stageSize.y
        tx == sm.stageSize.x
        bt == IF layer # 0 THEN 0 ELSE sm.baseTile
    IN  IF buffer = NoBuffer
        THEN [k \in 0..(ty * tx * 4 - 1) |-> IF k % 4 = 0 THEN bt ELSE 0]
        ELSE buffer

\* the size polling of the constructor stops after this many retries
TickLimit == 100

\* bindSpriteTexture of the constructor: sets spriteMapSize once the sheet is
\* ready and has its internal texture, otherwise schedules a retry
bindSpriteTexture_NoReturn(sm) ==
    LET set == IF sm.sheet = "ready"
               THEN [sm EXCEPT !.sizeSets = @ + 1]
               ELSE sm
    IN  IF set.tickSave < TickLimit
        THEN [set EXCEPT !.timerPending = TRUE, !.timersScheduled = @ + 1]
        ELSE set

bindSpriteTexture(sm) ==
    IF sm.sheet = "ready"
    THEN [sm EXCEPT !.sizeSets = @ + 1]
    ELSE IF sm.tickSave < TickLimit
         THEN [sm EXCEPT !.timerPending = TRUE, !.timersScheduled = @ + 1]
         ELSE sm

\* the states of the sprite sheet texture: isReady() false, ready without
\* the internal texture, ready with it
SheetStates == {"notReady", "readyNoTexture", "ready"}

\* the SpriteMap constructor: option defaults, frame buffer, one tile
\* buffer per layer, first poll of the sheet size
SpriteMapConstructor(atlasJSON, options, spriteSheet) ==
    LET base == [NoSpriteMap EXCEPT
                    !.constructed = TRUE,
                    !.sprites = atlasJSON,
                    !.stageSize = IF "stageSize" \in DOMAIN options
                                  THEN options.stageSize
                                  ELSE [x |-> 1, y |-> 1],
                    !.layerCount = IF options.layerCount = 0
                                   THEN 1 ELSE options.layerCount,
                    !.baseTile = options.baseTile,
                    !.sheet = spriteSheet]
        built == [base EXCEPT
                    !.frameMap = createFrameBuffer(base.sprites),
                    !.tileMaps = [i \in 0..(base.layerCount - 1) |->
                                     createTileBuffer(base, NoBuffer, i)]]
    IN  bindSpriteTexture(built)

ConstructSpriteMap(atlasJSON, options, spriteSheet) ==
    /\ ~spriteMap.constructed
    /\ spriteMap' = SpriteMapConstructor(atlasJSON, options, spriteSheet)
    /\ UNCHANGED <<material, materialFlags, subMeshes, engine, scene,
                   imageProcessing, textures, lastCall, lastSetter, frame,
                   lastBind, actionManager>>

\* Math.floor of a coordinate kept in halves of a tile
Floor(v) == v \div 2

\* the write loop of changeTiles over the positions p, from position i on
RECURSIVE WriteTiles(_, _, _, _, _)
WriteTiles_StrideY(buffer, sm, p, tile, i) ==
    IF i > Len(p) THEN buffer
    ELSE LET id == Floor(p[i].x) * 4 + Floor(p[i].y) * (sm.stageSize.y * 4)
         IN  WriteTiles(IF id \in DOMAIN buffer
                        THEN [buffer EXCEPT ![id] = tile] ELSE buffer,
                        sm, p, tile, i + 1)

WriteTiles(buffer, sm, p, tile, i) ==
    IF i > Len(p) THEN buffer
    ELSE LET tx == sm.stageSize.x
             id == Floor(p[i].x) * 4 + Floor(p[i].y) * (tx * 4)
         IN  WriteTiles(IF id \in DOMAIN buffer
                        THEN [buffer EXCEPT ![id] = tile] ELSE buffer,
                        sm, p, tile, i + 1)

\* SpriteMap.changeTiles(_layer, pos, tile); pos is a list of positions (a
\* single Vector2 is the list of one)
changeTiles(sm, layer, pos, tile) ==
    LET buffer == WriteTiles(sm.tileMaps[layer], sm, pos, tile, 1)
    IN  [sm EXCEPT !.tileMaps[layer] = createTileBuffer(sm, buffer, 0)]

\* the positions inside the stage, in halves of a tile: the corner of every
\* cell (h = 0) or its centre (h = 1)
Positions(sm, h) ==
    {[x |-> 2 * cx + h, y |-> 2 * cy + h] :
        cx \in 0..(sm.stageSize.x - 1), cy \in 0..(sm.stageSize.y - 1)}

\* one position, or a list of a corner and a centre
PositionLists(sm) ==
    {<<p>> : p \in Positions(sm, 0) \cup Positions(sm, 1)}
    \cup {<<p, q>> : p \in Positions(sm, 0), q \in Positions(sm, 1)}

\* the tiles given to changeTiles: no sprite or the first sprite
Tiles == {0, 1}

ChangeTiles(layer, pos, tile) ==
    /\ spriteMap.constructed
    /\ layer \in DOMAIN spriteMap.tileMaps
    /\ spriteMap' = changeTiles(spriteMap, layer, pos, tile)
    /\ UNCHANGED <<material, materialFlags, subMeshes, engine, scene,
                   imageProcessing, textures, lastCall, lastSetter, frame,
                   lastBind, actionManager>>

\* the retry scheduled by bindSpriteTexture fires
TimerFires ==
    /\ spriteMap.timerPending
    /\ spriteMap' = bindSpriteTexture([spriteMap EXCEPT
                                          !.timerPending = FALSE,
                                          !.tickSave = @ + 1])
    /\ UNCHANGED <<material, materialFlags, subMeshes, engine, scene,
                   imageProcessing, textures, lastCall, lastSetter, frame,
                   lastBind, actionManager>>

\* the sprite sheet loads: first ready, then with its internal texture
SheetLoads ==
    /\ spriteMap.constructed
    /\ spriteMap.sheet # "ready"
    /\ spriteMap' = [spriteMap EXCEPT
                        !.sheet = IF @ = "notReady" THEN "readyNoTexture"
                                  ELSE "ready"]
    /\ UNCHANGED <<material, materialFlags, subMeshes, engine, scene,
                   imageProcessing, textures, lastCall, lastSetter, frame,
                   lastBind, actionManager>>

\* the options of the scenarios with one tile: no stageSize, layerCount 0
\* (both defaulted by the constructor)
DefaultOptions(baseTile) == [layerCount |-> 0, baseTile |-> baseTile]

InitAtlas == InitWith(1, TRUE, FALSE, TRUE, <<>>)

NextAtlas ==
    \/ \E atlas \in Atlases, bt \in Tiles :
           ConstructSpriteMap(atlas, DefaultOptions(bt), "ready")
    \/ \E pos \in PositionLists(spriteMap), tile \in Tiles :
           ChangeTiles(0, pos, tile)

AtlasSpec == InitAtlas /\ [][NextAtlas]_vars

-----------------------------------------------------------------------------
(* TileSpec: sprite maps of one sprite over stages of up to MaxStage x 2   *)
(* tiles and one or two layers, whose tiles are changed.                   *)

\* the options of the tile scenarios
StageOptions ==
    [stageSize : {[x |-> tx, y |-> ty] : tx \in 1..MaxStage, ty \in {1, 2}},
     layerCount : {0, 2},
     baseTile : Tiles]

InitTile == InitWith(1, TRUE, FALSE, TRUE, <<>>)

NextTile ==
    \/ \E options \in StageOptions :
           ConstructSpriteMap(<<SpriteOf(1)>>, options, "ready")
    \/ \E layer \in {0, 1}, pos \in PositionLists(spriteMap), tile \in Tiles :
           ChangeTiles(layer, pos, tile)

TileSpec == InitTile /\ [][NextTile]_vars

-----------------------------------------------------------------------------
(* PollSpec: a sprite map is constructed over a sheet in any of its        *)
(* states; the sheet may load while the constructor's poll retries.  A     *)
(* scheduled timer fires (setTimeout of 100 ms), hence the weak fairness.  *)

InitPoll == InitWith(1, TRUE, FALSE, TRUE, <<>>)

NextPoll ==
    \/ \E sheet \in SheetStates, bt \in Tiles :
           ConstructSpriteMap(<<SpriteOf(1)>>, DefaultOptions(bt), sheet)
    \/ TimerFires
    \/ SheetLoads

PollSpec == InitPoll /\ [][NextPoll]_vars /\ WF_vars(TimerFires)

-----------------------------------------------------------------------------
(* AbstractActionManager: the static trigger registry.  Its keys are       *)
(* strings, kept as sequences of characters; trigger numbers are kept in   *)
(* halves (2 stands for 1, 3 for 1.5).                                     *)

DigitChars == <<"0", "1", "2", "3", "4", "5", "6", "7", "8", "9">>

DigitValue(c) == CHOOSE d \in 0..9 : DigitChars[d + 1] = c

IsDigit(c) == \E d \in 0..9 : DigitChars[d + 1] = c

\* the decimal digits of a natural number
RECURSIVE Decimal(_)
Decimal(n) ==
    IF n < 10 THEN <<DigitChars[n + 1]>>
    ELSE Decimal(n \div 10) \o <<DigitChars[(n % 10) + 1]>>

\* the property key JavaScript makes of a number used as index
\* (Triggers[action.trigger]): the number's decimal string
NumberToString(h) ==
    IF h % 2 = 0 THEN Decimal(h \div 2) ELSE Decimal(h \div 2) \o <<".", "5">>

\* parseInt(t): the integer of the leading digits, NaN when there is none
\* (the keys of the scenarios have no leading blank or sign)
RECURSIVE ParseDigits(_, _, _)
ParseDigits(t, i, acc) ==
    IF i > Len(t) \/ ~IsDigit(t[i]) THEN acc
    ELSE ParseDigits(t, i + 1, acc * 10 + DigitValue(t[i]))

parseInt(t) ==
    IF Len(t) = 0 \/ ~IsDigit(t[1]) THEN NaN ELSE Num(ParseDigits(t, 1, 0))

\* Constants.ACTION_OnPickTrigger and Constants.ACTION_OnPickUpTrigger
ACTION_OnPickTrigger == 1
ACTION_OnPickUpTrigger == 7

\* static get HasTriggers
HasTriggers(Triggers) == \E t \in DOMAIN Triggers : TRUE

\* static get HasPickTriggers
HasPickTriggers(Triggers) ==
    \E t \in DOMAIN Triggers :
        LET tAsInt == parseInt(t)
        IN  /\ ~isNaN(tAsInt)
            /\ tAsInt.v >= ACTION_OnPickTrigger
            /\ tAsInt.v <= ACTION_OnPickUpTrigger

\* static HasSpecificTrigger(trigger); trigger is in halves
HasSpecificTrigger(Triggers, trigger) ==
    \E t \in DOMAIN Triggers :
        LET tAsInt == parseInt(t)
        IN  ~isNaN(tAsInt) /\ 2 * tAsInt.v = trigger

\* the trigger numbers of the scenarios, in halves: 0, 0.5, 1, 7, 7.5, 8, 10
TriggerInputs == {0, 1, 2, 14, 15, 16, 20}

\* an action with this trigger is registered: the registry gets the key
RegisterTrigger(trigger) ==
    /\ NumberToString(trigger) \notin DOMAIN actionManager.Triggers
    /\ actionManager' =
           [NoActions EXCEPT
               !.Triggers = [k \in DOMAIN actionManager.Triggers
                                    \cup {NumberToString(trigger)} |-> 1]]
    /\ UNCHANGED <<material, materialFlags, subMeshes, engine, scene,
                   imageProcessing, textures, lastCall, lastSetter, frame,
                   lastBind, spriteMap>>

\* the last action with this trigger is unregistered: the key is deleted
UnregisterTrigger(trigger) ==
    /\ NumberToString(trigger) \in DOMAIN actionManager.Triggers
    /\ actionManager' =
           [NoActions EXCEPT
               !.Triggers = [k \in DOMAIN actionManager.Triggers
                                    \ {NumberToString(trigger)} |-> 1]]
    /\ UNCHANGED <<material, materialFlags, subMeshes, engine, scene,
                   imageProcessing, textures, lastCall, lastSetter, frame,
                   lastBind, spriteMap>>

\* the three static functions are asked, the third about this trigger
AskTriggers(trigger) ==
    /\ actionManager' =
           [actionManager EXCEPT
               !.asked = TRUE,
               !.trigger = trigger,
               !.HasTriggers = HasTriggers(actionManager.Triggers),
               !.HasPickTriggers = HasPickTriggers(actionManager.Triggers),
               !.HasSpecificTrigger =
                   HasSpecificTrigger(actionManager.Triggers, trigger)]
    /\ UNCHANGED <<material, materialFlags, subMeshes, engine, scene,
                   imageProcessing, textures, lastCall, lastSetter, frame,
                   lastBind, spriteMap>>

InitRegistry == InitWith(1, TRUE, FALSE, TRUE, <<>>)

NextRegistry ==
    \/ \E trigger \in TriggerInputs : RegisterTrigger(trigger)
    \/ \E trigger \in TriggerInputs : UnregisterTrigger(trigger)
    \/ \E trigger \in TriggerInputs : AskTriggers(trigger)

RegistrySpec == InitRegistry /\ [][NextRegistry]_vars

-----------------------------------------------------------------------------
(* ColorSpec: a material without textures whose useRGBColor,               *)
(* primaryColorShadowLevel and primaryColorHighlightLevel are assigned in  *)
(* any order between the checks of its sub-mesh.                           *)

InitColor == InitWith(1, TRUE, FALSE, TRUE, <<>>)

NextColor ==
    \/ \E s \in DOMAIN subMeshes : IsReadyForSubMeshCall(s, FALSE)
    \/ NextFrame
    \/ \E v \in BOOLEAN : SetUseRGBColor(v)
    \/ \E v \in 0..MaxLevel : SetPrimaryColorShadowLevel(v)
    \/ \E v \in 0..MaxLevel : SetPrimaryColorHighlightLevel(v)

ColorSpec == InitColor /\ [][NextColor]_vars

-----------------------------------------------------------------------------
(* GroundSpec: enableGroundProjection is switched while the reflection     *)
(* texture, a ready cube map or a ready 2D texture, is set and removed     *)
(* between the checks of the sub-mesh.                                     *)

InitGround ==
    \E t \in {LoadingTexture(FALSE, "CUBIC_MODE", TRUE),
              LoadingTexture(FALSE, "PLANAR_MODE", FALSE)} :
        InitWith(1, TRUE, FALSE, TRUE, [env |-> [t EXCEPT !.ready = TRUE]])

NextGround ==
    \/ \E s \in DOMAIN subMeshes : IsReadyForSubMeshCall(s, FALSE)
    \/ NextFrame
    \/ \E id \in {"null", "env"} : SetReflectionTexture(id)
    \/ \E v \in BOOLEAN : SetEnableGroundProjection(v)

GroundSpec == InitGround /\ [][NextGround]_vars

-----------------------------------------------------------------------------
(* NestSpec: a cube reflection texture that may still be loading is set    *)
(* and removed, reflection textures are disabled and re-enabled, and       *)
(* reflectionFresnel and reflectionFalloffDistance are assigned between    *)
(* the checks; the image-processing configuration may still be loading.   *)

SetReflectionFalloffDistance(value) ==
    SetExpanded("reflectionFalloffDistance", value, markAsTexturesDirty)

InitNest ==
    \E ipr \in BOOLEAN :
        InitOf([DefaultMaterial EXCEPT !.reflectionTexture = "env"],
               1, TRUE, FALSE, ipr,
               [env |-> LoadingTexture(FALSE, "CUBIC_MODE", TRUE)])

NextNest ==
    \/ \E s \in DOMAIN subMeshes : IsReadyForSubMeshCall(s, FALSE)
    \/ NextFrame
    \/ ImageProcessingLoaded
    \/ TextureLoaded("env")
    \/ \E id \in {"null", "env"} : SetReflectionTexture(id)
    \/ \E v \in BOOLEAN : SetReflectionTextureEnabled(v)
    \/ \E v \in BOOLEAN : SetReflectionFresnel(v)
    \/ \E v \in 0..MaxLevel : SetReflectionFalloffDistance(v)

NestSpec == InitNest /\ [][NextNest]_vars

-----------------------------------------------------------------------------
(* PrimarySpec: a material in non-RGB colour mode whose primaryColor and   *)
(* primary colour levels are assigned in any order, checked and bound.     *)

SetPrimaryColor(value) == SetExpanded("primaryColor", value, markAsLightDirty)

\* the primary colours of the scenario: white and red
PrimaryColors == {White, Color3(1, 0, 0)}

InitPrimary ==
    InitOf([DefaultMaterial EXCEPT !.useRGBColor = FALSE],
           1, TRUE, FALSE, TRUE, <<>>)

NextPrimary ==
    \/ \E s \in DOMAIN subMeshes : IsReadyForSubMeshCall(s, FALSE)
    \/ \E s \in DOMAIN subMeshes : BindForSubMeshCall(s)
    \/ NextFrame
    \/ ResetCachedMaterial
    \/ \E c \in PrimaryColors : SetPrimaryColor(c)
    \/ \E v \in 0..MaxLevel : SetPrimaryColorShadowLevel(v)
    \/ \E v \in 0..MaxLevel : SetPrimaryColorHighlightLevel(v)

PrimarySpec == InitPrimary /\ [][NextPrimary]_vars

-----------------------------------------------------------------------------
(* Claims.                                                                 *)

\* the sub-mesh of the most recent readiness check
LastSubMesh == subMeshes[lastCall.subMesh]

\* some partition flag of the define set d is set
AnyPartitionDirty(d) ==
    \/ d.areTexturesDirty \/ d.areLightsDirty \/ d.areMiscDirty
    \/ d.areImageProcessingDirty \/ d.areAttributesDirty

\* C1: whenever isReadyForSubMesh returns true, on the fast path or on the
\* full path, the sub-mesh's current effect exists and reports ready.
C1_TrueMeansEffectReady ==
    lastCall.result =>
        /\ LastSubMesh.effect # NoEffect
        /\ isReady(engine, LastSubMesh.effect)

\* C2: a check of a frozen material whose sub-mesh has an effect, was
\* previously ready and is checked in the recorded instancing mode returns
\* true and changes nothing: no define, no dirty flag, no draw wrapper flag,
\* no effect request, no layout rebuild.
C2_FrozenFastPathChangesNothing ==
    [][\A s \in DOMAIN subMeshes, u \in BOOLEAN :
        ( /\ IsReadyForSubMeshCall(s, u)
          /\ material.isFrozen
          /\ subMeshes[s].effect # NoEffect
          /\ subMeshes[s].wasPreviouslyReady
          /\ subMeshes[s].wasPreviouslyUsingInstances = {u} )
        => ( /\ lastCall'.result
             /\ subMeshes' = subMeshes
             /\ engine' = engine
             /\ ~lastCall'.requested
             /\ ~lastCall'.builtLayout )]_vars

\* C2 witness: the fast path was taken while a partition was marked dirty
C2_Witness ==
    /\ lastCall.path = "frozen"
    /\ lastCall.after = "enableNoise"
    /\ lastCall.useInstances
    /\ LastSubMesh.materialDefines.areTexturesDirty

\* the defines active for a material with the default properties
MinimalKey(eng, useInstances) ==
    {<<"USERGBCOLOR", 1>>, <<"NORMAL", 1>>, <<"DIFFUSEDIRECTUV", 0>>,
     <<"TONEMAPPING", 0>>}
        \cup (IF eng.caps.textureLOD THEN {<<"TEXTURELODSUPPORT", 1>>} ELSE {})
        \cup (IF useInstances THEN {<<"INSTANCES", 1>>} ELSE {})

\* C9: a check made with no partition dirty and the same useInstances changes
\* no define value and requests no effect; an effect is requested only for a
\* define set that was never processed, that a setter marked dirty, or whose
\* instancing mode changed, so a material that never changes requests its
\* effect once; and a material with the default properties is ready with the
\* minimal define key.
C9_CleanCheckIsIdempotent ==
    [][\A s \in DOMAIN subMeshes, u \in BOOLEAN :
        IsReadyForSubMeshCall(s, u) =>
            LET sm == subMeshes[s]
                d == sm.materialDefines
            IN  /\ ( sm.hasDefines /\ ~d.isDirty /\ ~AnyPartitionDirty(d)
                     /\ d.INSTANCES = u )
                   => ( /\ Values(subMeshes'[s].materialDefines) = Values(d)
                        /\ ~lastCall'.requested
                        /\ engine' = engine )
                /\ lastCall'.requested
                   => ( \/ sm.effect = NoEffect
                        \/ AnyPartitionDirty(d)
                        \/ d.INSTANCES # u )
                /\ ( lastCall'.path = "ready"
                     /\ [material EXCEPT !.isFrozen = FALSE] = DefaultMaterial )
                   => toString(subMeshes'[s].materialDefines)
                        = MinimalKey(engine, u)]_vars

\* C9 witness: a full check of clean defines went through to "ready" without
\* requesting an effect
C9_Witness ==
    /\ lastCall.path = "ready"
    /\ ~lastCall.requested
    /\ material = DefaultMaterial
    /\ engine.effects = {LastSubMesh.effect}

-----------------------------------------------------------------------------
(* Aborted checks and the reflection defines (TexSpec, ReflSpec).          *)

\* the define set a check of sub-mesh s starts from
DefinesBefore(s) ==
    IF subMeshes[s].hasDefines
    THEN subMeshes[s].materialDefines ELSE BackgroundMaterialDefines

AbortPaths == {"diffuseTexture", "reflectionTexture", "imageProcessing"}

\* C3: a check that aborts because the diffuse texture, the reflection
\* texture or the image-processing configuration is not ready returns false
\* and leaves every define value of the sub-mesh as it was before the call.
C3_AbortLeavesDefinesUntouched ==
    [][\A s \in DOMAIN subMeshes :
        ( /\ IsReadyForSubMeshCall(s, FALSE)
          /\ lastCall'.path \in AbortPaths )
        => ( /\ ~lastCall'.result
             /\ Values(subMeshes'[s].materialDefines)
                    = Values(DefinesBefore(s)) )]_vars

\* the defines the reflection branch of the textures block can set
ReflectionDefineNames ==
    {"REFLECTION", "REFLECTIONFRESNEL", "REFLECTIONFALLOFF", "REFLECTIONBLUR",
     "REFLECTIONMAP_3D", "REFLECTIONMAP_SPHERICAL", "REFLECTIONMAP_PLANAR",
     "REFLECTIONMAP_CUBIC", "REFLECTIONMAP_PROJECTION", "REFLECTIONMAP_SKYBOX",
     "REFLECTIONMAP_EXPLICIT", "REFLECTIONMAP_EQUIRECTANGULAR",
     "REFLECTIONMAP_EQUIRECTANGULAR_FIXED",
     "REFLECTIONMAP_MIRROREDEQUIRECTANGULAR_FIXED", "INVERTCUBICMAP",
     "REFLECTIONMAP_OPPOSITEZ", "LODINREFLECTIONALPHA", "GAMMAREFLECTION",
     "RGBDREFLECTION", "REFLECTIONBGR", "EQUIRECTANGULAR_RELFECTION_FOV"}

\* C6: a check that refreshes the textures block while the reflection
\* texture is absent or reflection is disabled leaves every define of the
\* reflection branch at its default value, REFLECTIONBGR and
\* EQUIRECTANGULAR_RELFECTION_FOV included.
C6_ReflectionOffResetsAllReflectionDefines ==
    [][\A s \in DOMAIN subMeshes :
        ( /\ IsReadyForSubMeshCall(s, FALSE)
          /\ DefinesBefore(s).areTexturesDirty
          /\ lastCall'.path \in {"imageProcessing", "effect", "ready"}
          /\ ~UseReflection(Resolved(material, textures), materialFlags) )
        => \A n \in ReflectionDefineNames :
              subMeshes'[s].materialDefines[n] = BackgroundMaterialDefines[n]]_vars

-----------------------------------------------------------------------------
(* The frame scenario (FrameSpec).                                         *)

\* the defines the textures block writes
TextureDefineNames ==
    {"DIFFUSE", "DIFFUSEDIRECTUV", "DIFFUSEHASALPHA", "GAMMADIFFUSE",
     "OPACITYFRESNEL", "PREMULTIPLYALPHA", "USERGBCOLOR", "NOISE",
     "TEXTURELODSUPPORT"} \cup ReflectionDefineNames

\* the number of frames on which some texture of the material is not ready
NotReadyFrames ==
    IF textures["diffuse"].notReadyFrames > textures["env"].notReadyFrames
    THEN textures["diffuse"].notReadyFrames
    ELSE textures["env"].notReadyFrames

\* the defines of a first check made with every texture ready
FinalDefines ==
    isReadyForSubMesh(
        Resolved(material, TexturesOnFrame(textures, MaxNotReadyFrames + 1)),
        materialFlags, NewSubMesh, engine, scene, imageProcessing, FALSE
    ).subMesh.materialDefines

\* C4: with textures not ready on the first n frames and ready afterwards,
\* the check of each of the frames 1..n returns false and leaves every
\* texture-derived define at its initial value; the check of frame n+1 and
\* of every later frame returns true with the final values.
C4_TextureDefinesFinalOnlyWhenReady ==
    frame > 0 =>
        LET d == subMeshes[1].materialDefines
        IN  IF frame <= NotReadyFrames
            THEN /\ ~lastCall.result
                 /\ \A n \in TextureDefineNames :
                        d[n] = BackgroundMaterialDefines[n]
            ELSE /\ lastCall.result
                 /\ \A n \in TextureDefineNames : d[n] = FinalDefines[n]

-----------------------------------------------------------------------------
(* Retry (LiveSpec).                                                       *)

\* C5: if from some point on no property is assigned, then from some point
\* on every check returns true: the texture, the image-processing
\* configuration and the requested effect become ready, and no aborted
\* check loses the dirty flags that make a later check request the effect.
C5_EventuallyReadyForever ==
    <>[][~PropertyChange]_vars => <>[](lastCall.result)

\* a check found the sub-mesh ready with the diffuse texture, which was
\* still loading when the material was created
C5_Witness ==
    /\ lastCall.result
    /\ lastCall.path = "ready"
    /\ LastSubMesh.materialDefines.DIFFUSE
    /\ ~AnyPartitionDirty(LastSubMesh.materialDefines)
    /\ isReady(engine, LastSubMesh.effect)

-----------------------------------------------------------------------------
(* The lights partition (LightsSpec).                                      *)

\* only the lights partition of the define set d is dirty
OnlyLightsDirty(d) ==
    /\ d.areLightsDirty
    /\ ~d.areTexturesDirty /\ ~d.areMiscDirty
    /\ ~d.areImageProcessingDirty /\ ~d.areAttributesDirty

UseHighlightAndShadowColors ==
    /\ ~material.useRGBColor
    /\ ( \/ material.primaryColorShadowLevel # 0
         \/ material.primaryColorHighlightLevel # 0 )

-----------------------------------------------------------------------------
(* The effect cache (CacheSpec).                                           *)

\* C10: a check that requests an effect asks for the name made of the shader
\* and the define key; if the engine already holds an effect of that name,
\* the request compiles nothing and returns that very effect; the engine
\* never holds two effects of one name, and sub-meshes with the same name
\* hold the same effect.
C10_CacheLaw ==
    [][\A s \in DOMAIN subMeshes, u \in BOOLEAN :
        ( /\ IsReadyForSubMeshCall(s, u)
          /\ lastCall'.requested )
        => LET got == subMeshes'[s].effect
               before == EffectsNamed(engine, got.name)
           IN  /\ got.name = EffectName(subMeshes'[s].materialDefines)
               /\ before # {}
                  => ( /\ ~lastCall'.compiled
                       /\ got \in before
                       /\ engine'.effects = engine.effects )
               /\ before = {} => lastCall'.compiled
               /\ EffectsNamed(engine', got.name) = {got}
               /\ \A t \in DOMAIN subMeshes :
                     subMeshes'[t].effect.name = got.name
                     => subMeshes'[t].effect = got]_vars

\* the second sub-mesh requested the effect the first one had compiled and
\* got it without a compile, while it was still compiling
C10_Witness ==
    /\ lastCall.subMesh = 2
    /\ lastCall.requested
    /\ ~lastCall.compiled
    /\ subMeshes[1].effect = subMeshes[2].effect
    /\ subMeshes[1].effect # NoEffect
    /\ ~isReady(engine, subMeshes[1].effect)

-----------------------------------------------------------------------------
(* Toggling reflectionFresnel (ToggleSpec).                                *)

\* C11: each frame of the toggle scenario changes the define key and
\* requests the effect of the new key; an effect is compiled on the first
\* two frames at most, the third frame gets the effect compiled for the
\* first one from the engine, and the engine holds at most two effects.
C11_ToggleReusesVariant ==
    [][ToggleFrame =>
        /\ lastCall'.requested
        /\ subMeshes'[1].effect.name # subMeshes[1].effect.name
        /\ subMeshes'[1].materialDefines.REFLECTIONFRESNEL
              = material'.reflectionFresnel
        /\ lastCall'.compiled => frame' <= 2
        /\ frame' >= 3 => /\ engine'.effects = engine.effects
                          /\ subMeshes'[1].effect \in engine.effects
        /\ Cardinality(engine'.effects) <= 2]_vars

\* the third frame asked for the key of the first and compiled nothing
C11_Witness ==
    /\ frame = 3
    /\ lastCall.after = "reflectionFresnel"
    /\ lastCall.requested
    /\ ~lastCall.compiled
    /\ LastSubMesh.materialDefines.REFLECTIONFRESNEL
    /\ Cardinality(engine.effects) = 2

-----------------------------------------------------------------------------
(* An effect that does not become ready (Spec).                            *)

\* C12: a check of a sub-mesh whose requested effect is not ready and whose
\* define set was not marked dirty since the request requests an effect only
\* when the instancing mode changes the define key, and returns false
\* unless it requested one.
C12_FailedCompileIsNotRetried ==
    [][\A s \in DOMAIN subMeshes, u \in BOOLEAN :
        LET sm == subMeshes[s]
            d == sm.materialDefines
        IN  ( /\ IsReadyForSubMeshCall(s, u)
              /\ sm.hasDefines
              /\ sm.effect # NoEffect
              /\ ~isReady(engine, sm.effect)
              /\ ~d.isDirty /\ ~AnyPartitionDirty(d) )
            => ( /\ lastCall'.requested => d.INSTANCES # u
                 /\ ~lastCall'.requested => ~lastCall'.result )]_vars


\* the number of times a binding pass wrote uniform slot
Writes(updates, slot) ==
    Cardinality({i \in DOMAIN updates : updates[i] = slot})

\* C13: when a frozen material is bound a second time for the same sub-mesh
\* and nothing the must-rebind decision looks at has changed since the last
\* bind, the call updates no uniform of the material buffer and still gives
\* the diffuse and reflection textures in use to setTexture.
C13_FastPathStillBindsSamplers ==
    [][\A s \in DOMAIN subMeshes :
         ( /\ BindForSubMeshCall(s)
           /\ material.isFrozen
           /\ lastBind.bound /\ lastBind.subMesh = s
           /\ ~mustRebind(scene, subMeshes[s].effect, subMeshes[s])
           /\ lastBind.samplers =
                 TextureSectionSamplers(Resolved(material, textures),
                                        materialFlags, scene,
                                        subMeshes[s].materialDefines) )
         => ( /\ lastBind'.updates = <<>>
              /\ lastBind'.samplers =
                    TextureSectionSamplers(Resolved(material, textures),
                                           materialFlags, scene,
                                           subMeshes[s].materialDefines) )]_vars

\* C14: a binding pass that rebinds and does not skip the upload writes each
\* uniform slot of the material layout exactly once.
C14_EverySlotWrittenOnce ==
    [][\A s \in DOMAIN subMeshes :
         (BindForSubMeshCall(s) /\ lastBind'.uploaded)
         => \A slot \in LayoutSlots : Writes(lastBind'.updates, slot) = 1]_vars


\* the material has one callback on the configuration it uses and none on
\* any other
ExactlyOneObserver(ip) ==
    \A c \in Configurations :
        ip.observers[c] = IF c = ip.configuration THEN 1 ELSE 0

\* C15: after every assignment of imageProcessingConfiguration the material
\* has exactly one observer, on the configuration it uses, and none on a
\* former one; a parameter update of the configuration in use runs one
\* callback, which marks image processing dirty on every sub-mesh with
\* defines, and an update of any other configuration runs none and marks
\* nothing.
C15_OneObserverOnCurrentConfiguration ==
    [][/\ \A v \in Configurations \cup {"null"} :
            SetImageProcessingConfiguration(v)
            => /\ ExactlyOneObserver(imageProcessing')
               /\ imageProcessing'.configuration =
                     IF v = "null" THEN SceneConfiguration ELSE v
       /\ \A c \in Configurations :
            UpdateParameters(c)
            => IF c = imageProcessing.configuration
               THEN /\ imageProcessing'.callbacks = 1
                    /\ \A s \in DOMAIN subMeshes :
                          subMeshes[s].hasDefines
                          => subMeshes'[s].materialDefines.areImageProcessingDirty
               ELSE /\ imageProcessing'.callbacks = 0
                    /\ subMeshes' = subMeshes]_vars

\* the configuration was replaced, the former one and then the new one
\* notified, and only the new one reached the material
C15_Witness ==
    /\ imageProcessing.configuration = "B"
    /\ imageProcessing.updated = "B"
    /\ imageProcessing.callbacks = 1
    /\ lastSetter = "onUpdateParameters"
    /\ imageProcessing.observers[SceneConfiguration] = 0
    /\ \E s \in DOMAIN subMeshes :
          /\ subMeshes[s].hasDefines
          /\ subMeshes[s].materialDefines.areImageProcessingDirty

\* C16: once the material is disposed it has no observer on any
\* configuration, and no operation registers one again or marks a sub-mesh
\* dirty.
C16_DisposedMaterialIsInert ==
    material.disposed
    => /\ \A c \in Configurations : imageProcessing.observers[c] = 0
       /\ ~imageProcessing.observer.registered
       /\ \A s \in DOMAIN subMeshes :
             ~subMeshes[s].materialDefines.isDirty


\* the order in which the fallback list is to give features up
FallbackPriority == [FOG |-> 1, POINTSIZE |-> 2, MULTIVIEW |-> 3]

\* C17: the fallbacks of an effect request list a feature only when its
\* define is active, and rank FOG strictly before POINTSIZE and POINTSIZE
\* strictly before MULTIVIEW.
C17_FallbackRanksFollowPriority ==
    [][\A s \in DOMAIN subMeshes :
         (IsReadyForSubMeshCall(s, FALSE) /\ lastCall'.requested)
         => /\ \A f \in lastCall'.fallbacks :
                  subMeshes'[s].materialDefines[f.define]
            /\ \A f, g \in lastCall'.fallbacks :
                  FallbackPriority[f.define] < FallbackPriority[g.define]
                  => f.rank < g.rank]_vars


\* C18: an assignment of fovMultiplier stores 0 for a value below 0, 2 for a
\* value above 2, the value itself inside the range and 1.0 for NaN, so the
\* stored value is always a number of [0, 2].
C18_FovMultiplierIsClamped ==
    [][\A value \in FovInputs :
         SetFovMultiplier(value)
         => /\ material'.fovMultiplier =
                  IF value.nan THEN Num(10)
                  ELSE IF value.v < 0 THEN Num(0)
                  ELSE IF value.v > 20 THEN Num(20)
                  ELSE value
            /\ ~material'.fovMultiplier.nan
            /\ material'.fovMultiplier.v \in 0..20]_vars

\* NaN was assigned and 1.0 is stored
C18_Witness ==
    /\ lastSetter = "fovMultiplier = NaN"
    /\ material.fovMultiplier = Num(10)


\* C19: needAlphaTesting() returns false in every state of the material.
C19_NeedAlphaTestingIsFalse == ~needAlphaTesting(material)


\* C20: createDefaultLight(true) leaves exactly one light in scene.lights,
\* the default light created by the call, whatever lights the scene held.
C20_ReplaceLeavesOnlyTheDefaultLight ==
    [][CreateDefaultLightCall(TRUE)
       => scene'.lights = <<[id |-> scene.lightsCreated + 1,
                             name |-> "default light"]>>]_vars


\* C21: createDefaultCamera with replace false and an active camera changes
\* nothing; in every other case the former active camera, if any, is
\* disposed, and the scene ends with a new camera named "default camera" as
\* its active camera, of the kind asked for, with controls attached exactly
\* if attachCameraControls is true. The active camera is never null after a
\* call.
C21_DefaultCameraReplacesOrKeeps ==
    [][\A a, r, c \in BOOLEAN :
         CreateDefaultCameraCall(a, r, c)
         => /\ scene'.activeCamera # 0
            /\ IF ~r /\ scene.activeCamera # 0
               THEN scene' = scene
               ELSE /\ scene'.cameras =
                          Append(WithoutCamera(scene.cameras, scene.activeCamera),
                                 [id |-> scene.camerasCreated + 1,
                                  name |-> "default camera",
                                  kind |-> IF a THEN "ArcRotateCamera"
                                           ELSE "FreeCamera",
                                  attached |-> c])
                    /\ scene'.activeCamera = scene.camerasCreated + 1]_vars

\* the active camera of a scene with another camera was replaced by a default
\* camera with controls attached
C21_Witness ==
    /\ lastSetter = "createDefaultCamera(replace)"
    /\ Len(scene.cameras) = 2
    /\ scene.cameras[1].name = "camera" /\ scene.cameras[1].id = 2
    /\ scene.cameras[2].name = "default camera" /\ scene.cameras[2].attached
    /\ scene.activeCamera = scene.cameras[2].id


\* the dirty flag of each partition and the defines only its block writes
PartitionFlags ==
    {"areTexturesDirty", "areLightsDirty", "areImageProcessingDirty",
     "areMiscDirty"}
PartitionDefines ==
    [areTexturesDirty |-> TextureDefineNames \ {"REFLECTIONMAP_SKYBOX"},
     areLightsDirty |-> {"USEHIGHLIGHTANDSHADOWCOLORS", "BACKMAT_SHADOWONLY"},
     areImageProcessingDirty |-> {"IMAGEPROCESSING", "TONEMAPPING"},
     areMiscDirty |-> {"PROJECTED_GROUND", "FOG", "POINTSIZE"}]

\* C22: a check writes the defines of a partition only if the partition's
\* dirty flag was set; a dirty flag is cleared only by a check that requests
\* the effect, which leaves all four clear; a check that aborts on a
\* not-ready resource leaves every dirty flag that was set still set.
C22_DirtyFlagDiscipline ==
    [][\A s \in DOMAIN subMeshes :
         IsReadyForSubMeshCall(s, FALSE)
         => LET d == DefinesBefore(s)
                after == subMeshes'[s].materialDefines
            IN  /\ \A f \in PartitionFlags :
                     /\ ~d[f] => \A n \in PartitionDefines[f] : after[n] = d[n]
                     /\ (d[f] /\ ~after[f]) => lastCall'.requested
                     /\ (lastCall'.path \in AbortPaths /\ d[f]) => after[f]
                /\ lastCall'.requested
                   => \A f \in PartitionFlags : ~after[f]]_vars

\* a check aborted on the image-processing configuration with the lights
\* partition, already refreshed, still dirty
C22_Witness ==
    /\ lastCall.path = "imageProcessing"
    /\ lastCall.after = "primaryColorShadowLevel"
    /\ LastSubMesh.materialDefines.areLightsDirty
    /\ LastSubMesh.materialDefines.areImageProcessingDirty
    /\ LastSubMesh.materialDefines.USEHIGHLIGHTANDSHADOWCOLORS


\* C23: of the readiness checks, only one that runs the full path and returns
\* true writes the draw wrapper's "was previously ready" and "was previously
\* using instances" flags, and it records the useInstances argument of the
\* call; a check that returns false, the frozen fast path and the
\* same-render-id return leave both flags as they were.
C23_ReadyBookkeeping ==
    [][\A s \in DOMAIN subMeshes, u \in BOOLEAN :
         IsReadyForSubMeshCall(s, u)
         => IF lastCall'.path = "ready"
            THEN /\ lastCall'.result
                 /\ subMeshes'[s].wasPreviouslyReady
                 /\ subMeshes'[s].wasPreviouslyUsingInstances = {u}
            ELSE /\ lastCall'.path \in {"frozen", "sameRenderId"}
                    \/ ~lastCall'.result
                 /\ subMeshes'[s].wasPreviouslyReady
                       = subMeshes[s].wasPreviouslyReady
                 /\ subMeshes'[s].wasPreviouslyUsingInstances
                       = subMeshes[s].wasPreviouslyUsingInstances]_vars

\* a full-path check with instances returned true and recorded it, on a
\* sub-mesh that had no effect ready for instances before
C23_Witness ==
    /\ lastCall.path = "ready" /\ lastCall.useInstances /\ lastCall.compiled
    /\ LastSubMesh.wasPreviouslyReady
    /\ LastSubMesh.wasPreviouslyUsingInstances = {TRUE}
    /\ Cardinality(engine.effects) >= 2


\* C24: a readiness check rebuilds the uniform-buffer layout exactly when it
\* reaches the effect stage with a dirty define set (dirty before the call,
\* or made so by a change of the instancing mode or of multiview), which is
\* exactly when it requests an effect; a check with a clean define set, an
\* aborted check, the frozen fast path and the same-render-id return never
\* rebuild it.
C24_LayoutRebuiltOnRequestOnly ==
    [][\A s \in DOMAIN subMeshes, u \in BOOLEAN :
         IsReadyForSubMeshCall(s, u)
         => LET d == DefinesBefore(s)
            IN  /\ lastCall'.builtLayout <=> lastCall'.requested
                /\ lastCall'.builtLayout
                   <=> /\ lastCall'.path \in {"effect", "ready"}
                       /\ \/ d.isDirty
                          \/ d.INSTANCES # u
                          \/ d.MULTIVIEW # scene.multiview]_vars

\* a check made after no setter rebuilt the layout, because the instancing
\* mode changed, and a compiled effect was reused
C24_Witness ==
    /\ lastCall.builtLayout /\ lastCall.after = "none"
    /\ lastCall.useInstances /\ ~lastCall.compiled
    /\ lastCall.result


\* the defines of the switch on coordinatesMode
CoordinatesModeDefines == {CoordinatesModeDefine(mode) : mode \in CoordinatesModes}

\* C25: with a reflection texture in use and ground projection off, a check
\* that refreshes the textures partition leaves exactly one coordinate-mode
\* define true, the one of the texture's current mode, and INVERTCUBICMAP
\* true only if that mode is the inverse-cubic mode.
C25_OneCoordinatesModeDefine ==
    [][\A s \in DOMAIN subMeshes :
         ( /\ IsReadyForSubMeshCall(s, FALSE)
           /\ DefinesBefore(s).areTexturesDirty
           /\ lastCall'.path \in {"effect", "ready"}
           /\ UseReflection(Resolved(material, textures), materialFlags)
           /\ ~material.enableGroundProjection )
         => LET after == subMeshes'[s].materialDefines
                mode == textures[material.reflectionTexture].coordinatesMode
            IN  /\ \A n \in CoordinatesModeDefines :
                      after[n] <=> n = CoordinatesModeDefine(mode)
                /\ after.INVERTCUBICMAP => mode = "INVCUBIC_MODE"]_vars


\* C26: bindForSubMesh for a sub-mesh without defines or without effect
\* changes nothing: the material with its active effect and uniform buffer,
\* the sub-mesh and the scene stay as they are, no uniform is updated and no
\* sampler is set.
C26_GuardedBindDoesNothing ==
    [][\A s \in DOMAIN subMeshes :
         ( /\ BindForSubMeshCall(s)
           /\ ~subMeshes[s].hasDefines \/ subMeshes[s].effect = NoEffect )
         => /\ UNCHANGED <<material, subMeshes, scene>>
            /\ ~lastBind'.bound
            /\ lastBind'.updates = <<>>
            /\ lastBind'.samplers = {}]_vars

\* after another sub-mesh was bound, a sub-mesh with defines and no effect
\* was bound and the first one's effect is still the active effect
C26_Witness ==
    /\ lastBind.subMesh # 0 /\ ~lastBind.bound
    /\ subMeshes[lastBind.subMesh].hasDefines
    /\ subMeshes[lastBind.subMesh].effect = NoEffect
    /\ material.activeEffect # NoEffect
    /\ scene.cachedMaterial

\* C27: for every atlas and every sprite i, the frame buffer holds
\* spriteCount x 4 texels: row 0 texel i is the frame (x, y, w, h), row 1
\* texel i the spriteSourceSize (x, y, w, h), row 2 texel i (sourceSize.w,
\* sourceSize.h, rotated, trimmed) and row 3 is zero.
Texel(data, spriteCount, row, i) ==
    [c \in 0..3 |-> data[row * spriteCount * 4 + i * 4 + c]]

C27_FrameBufferLayout ==
    spriteMap.constructed =>
        LET n == Len(spriteMap.sprites)
            data == spriteMap.frameMap
        IN  /\ DOMAIN data = 0..(16 * n - 1)
            /\ \A i \in 0..(n - 1) :
                 LET s == spriteMap.sprites[i + 1] IN
                 /\ Texel(data, n, 0, i) =
                        (0 :> s.frame.x @@ 1 :> s.frame.y
                         @@ 2 :> s.frame.w @@ 3 :> s.frame.h)
                 /\ Texel(data, n, 1, i) =
                        (0 :> s.spriteSourceSize.x @@ 1 :> s.spriteSourceSize.y
                         @@ 2 :> s.spriteSourceSize.w
                         @@ 3 :> s.spriteSourceSize.h)
                 /\ Texel(data, n, 2, i) =
                        (0 :> s.sourceSize.w @@ 1 :> s.sourceSize.h
                         @@ 2 :> (IF s.rotated THEN 1 ELSE 0)
                         @@ 3 :> (IF s.trimmed THEN 1 ELSE 0))
                 /\ Texel(data, n, 3, i) = Zeros(4)

\* C28: changeTiles(layer, pos, tile), for one position or a list of
\* positions inside the stage, sets the first component of every addressed
\* cell (index floor(x)*4 + floor(y)*stageSize.x*4) of that layer's buffer
\* to tile and leaves every other cell of the layer and every cell of every
\* other layer unchanged.
Addressed(sm, pos) ==
    {Floor(pos[i].x) * 4 + Floor(pos[i].y) * sm.stageSize.x * 4 :
        i \in DOMAIN pos}

C28_ChangeTilesWritesAddressedCells ==
    spriteMap.constructed =>
        \A layer \in DOMAIN spriteMap.tileMaps,
           pos \in PositionLists(spriteMap), tile \in Tiles :
            LET after == changeTiles(spriteMap, layer, pos, tile).tileMaps
            IN  /\ DOMAIN after = DOMAIN spriteMap.tileMaps
                /\ \A l \in DOMAIN after :
                     /\ DOMAIN after[l] = DOMAIN spriteMap.tileMaps[l]
                     /\ \A k \in DOMAIN after[l] :
                          after[l][k] =
                              IF l = layer /\ k \in Addressed(spriteMap, pos)
                              THEN tile
                              ELSE spriteMap.tileMaps[l][k]

\* a tile was placed in the second row of the second layer of a stage one
\* tile wide and two high, and nowhere else
C28_Witness ==
    /\ spriteMap.constructed
    /\ spriteMap.stageSize = [x |-> 1, y |-> 2]
    /\ spriteMap.layerCount = 2
    /\ spriteMap.baseTile = 0
    /\ spriteMap.tileMaps[1] = (4 :> 1) @@ Zeros(8)
    /\ spriteMap.tileMaps[0] = Zeros(8)

\* C30: the size polling of the constructor terminates: a retry is
\* scheduled only while the sheet is not ready (or has no internal texture)
\* and fewer than 100 retries have happened, so at most 100 timers are ever
\* scheduled, none after the sheet was found ready, and the poll sets
\* spriteMapSize at most once.
C30_SizePollingTerminates ==
    /\ [](/\ spriteMap.timersScheduled <= TickLimit
          /\ spriteMap.sizeSets <= 1
          /\ (spriteMap.sizeSets = 1 => ~spriteMap.timerPending))
    /\ [][/\ spriteMap'.timersScheduled > spriteMap.timersScheduled
             => /\ spriteMap'.sheet # "ready"
                /\ spriteMap'.tickSave < TickLimit
          /\ spriteMap.sizeSets = 1
             => spriteMap'.timersScheduled = spriteMap.timersScheduled]_vars
    /\ <>[](~spriteMap.timerPending)

\* the poll gave up: the sheet never got its texture and the last of the
\* 100 timers has fired
C30_Witness ==
    /\ spriteMap.constructed
    /\ spriteMap.sheet # "ready"
    /\ spriteMap.tickSave = TickLimit
    /\ spriteMap.timersScheduled = TickLimit
    /\ ~spriteMap.timerPending
    /\ spriteMap.sizeSets = 0

-----------------------------------------------------------------------------
(* The colour defines (ColorSpec).                                         *)

\* C31: after any sequence of assignments of useRGBColor and of the two
\* primary colour levels, interleaved with checks, a full-path check that
\* returns true leaves USEHIGHLIGHTANDSHADOWCOLORS equal to (not useRGBColor)
\* and (a level is nonzero), and USERGBCOLOR equal to useRGBColor.
C31_ColorDefinesFollowProperties ==
    [][\A s \in DOMAIN subMeshes :
          ( /\ IsReadyForSubMeshCall(s, FALSE)
            /\ lastCall'.path = "ready" )
          => LET e == subMeshes'[s].materialDefines
             IN  /\ e.USEHIGHLIGHTANDSHADOWCOLORS = UseHighlightAndShadowColors
                 /\ e.USERGBCOLOR = material.useRGBColor]_vars

\* C32: after any sequence of changes of enableGroundProjection and of the
\* reflection texture, interleaved with checks, a full-path check that
\* returns true leaves PROJECTED_GROUND equal to REFLECTIONMAP_3D and
\* enableGroundProjection; PROJECTED_GROUND is never true while REFLECTION
\* is false.
C32_ProjectedGroundFollowsReflection ==
    [][\A s \in DOMAIN subMeshes :
          ( /\ IsReadyForSubMeshCall(s, FALSE)
            /\ lastCall'.path = "ready" )
          => LET e == subMeshes'[s].materialDefines
             IN  /\ e.PROJECTED_GROUND
                        = (e.REFLECTIONMAP_3D /\ material.enableGroundProjection)
                 /\ e.PROJECTED_GROUND => e.REFLECTION]_vars

-----------------------------------------------------------------------------
(* The nesting of the reflection defines (NestSpec).                       *)

\* C33: in every state reached by property changes and checks, completed or
\* aborted, REFLECTIONFALLOFF implies REFLECTIONFRESNEL and
\* REFLECTIONFRESNEL implies REFLECTION.
C33_ReflectionDefinesAreNested ==
    \A s \in DOMAIN subMeshes :
        LET d == subMeshes[s].materialDefines
        IN  /\ d.REFLECTIONFALLOFF => d.REFLECTIONFRESNEL
            /\ d.REFLECTIONFRESNEL => d.REFLECTION

\* a check wrote the three defines and then aborted on the image-processing
\* configuration that was still loading
C33_Witness ==
    /\ lastCall.path = "imageProcessing"
    /\ ~lastCall.result
    /\ lastSetter = "none"
    /\ subMeshes[1].materialDefines.REFLECTION
    /\ subMeshes[1].materialDefines.REFLECTIONFRESNEL
    /\ subMeshes[1].materialDefines.REFLECTIONFALLOFF

-----------------------------------------------------------------------------
(* The values of the uniform buffer (BindSpec, PrimarySpec).               *)

\* C34: after a bindForSubMesh pass that performs the full upload, the
\* shadowLevel slot of the uniform buffer equals the material's current
\* shadowLevel, for every sequence of shadowLevel changes, a change from a
\* positive value back to 0 included.
C34_ShadowLevelSlotIsCurrent ==
    [][\A s \in DOMAIN subMeshes :
          ( /\ BindForSubMeshCall(s)
            /\ lastBind'.uploaded )
          => material'.uniformBuffer.data.shadowLevel = material'.shadowLevel]_vars

\* C35: whenever USEHIGHLIGHTANDSHADOWCOLORS is set, the colours that
\* bindForSubMesh uploads as vPrimaryColor and vPrimaryColorShadow are the
\* highlight and shadow colours derived from the material's current
\* primaryColor and current levels, whatever the order in which primaryColor
\* and the two levels were assigned.
C35_UploadedColorsAreCurrent ==
    [][\A s \in DOMAIN subMeshes :
          ( /\ BindForSubMeshCall(s)
            /\ lastBind'.uploaded
            /\ subMeshes[s].materialDefines.USEHIGHLIGHTANDSHADOWCOLORS )
          => LET derived == computePrimaryColors_Always(material')
                 data == material'.uniformBuffer.data
             IN  /\ data.vPrimaryColor = derived.primaryHighlightColor
                 /\ data.vPrimaryColorShadow = derived.primaryShadowColor]_vars

====
